---- MODULE Spec2Model ----
(***************************************************************************)
(* Watch Together: the signalling server (the room registry RoomManager    *)
(* and the Socket.IO event handlers that drive it) and the negotiation     *)
(* code of the browser client (useWebRTC, useSocket, Room).                *)
(*                                                                         *)
(* Strings are sequences of one-character strings, so that trim,           *)
(* toUpperCase, substring and the validation patterns are computed.        *)
(*                                                                         *)
(* Server:                                                                 *)
(*   rooms          RoomManager.rooms: roomId -> room                      *)
(*   conn           which connections are open                             *)
(*   currentRoomId  the closure variable of each connection's handlers     *)
(*   sioRooms       the Socket.IO rooms each socket has joined             *)
(*   now            Date.now()                                             *)
(*   outbox         the messages the last handler emitted, in order, each  *)
(*                  with the socket it was delivered to                    *)
(*   rmLog          the lines RoomManager logged during the last handler   *)
(*   event          the event the last handler was called with: its name,  *)
(*                  the socket it arrived on and its payload               *)
(*                                                                         *)
(* Clients, each named by the id of its socket:                            *)
(*   session              the members of the clients' room in join order,  *)
(*                        as the server holds them                         *)
(*   pc                   the RTCPeerConnection of peerConnectionRef       *)
(*   isCreatingOfferRef, targetSocketIdRef, pendingCandidatesRef           *)
(*                        the refs of useWebRTC                            *)
(*   operations           the operations of the peer connection that were  *)
(*                        called and have not settled, oldest first, each  *)
(*                        with the async function that awaits it           *)
(*   inbox                the messages the server sent to the client that  *)
(*                        its socket has not dispatched yet                *)
(*   timeouts             the callbacks passed to setTimeout, not yet run  *)
(*   storeHostId          the hostId of the client's store                 *)
(*   screenShare          how often the client's screen share was toggled  *)
(*   transport            the state of the client's socket                 *)
(*   roomHostId           the hostId the server holds for the clients'     *)
(*                        room                                             *)
(*   toasts               the toasts the last step showed                  *)
(*   dropped              what the last step called emitOffer, emitAnswer  *)
(*                        or emitIceCandidate with while its socket was    *)
(*                        not connected                                    *)
(*   sent                 the messages the last step emitted, each with    *)
(*                        the client the server relayed it to              *)
(*   did                  the last step: the function that ran, the client *)
(*                        it ran in and what it was called with            *)
(***************************************************************************)
EXTENDS Integers, Sequences, FiniteSets, TLC

VARIABLES rooms, conn, currentRoomId, sioRooms, now, outbox, rmLog, event

VARIABLES session, pc, isCreatingOfferRef, targetSocketIdRef, pendingCandidatesRef,
          operations, inbox, timeouts, storeHostId, screenShare, sent, did,
          transport, roomHostId, toasts, dropped

serverVars == <<rooms, conn, currentRoomId, sioRooms, now, outbox, rmLog, event>>

clientVars == <<session, pc, isCreatingOfferRef, targetSocketIdRef, pendingCandidatesRef,
                operations, inbox, timeouts, storeHostId, screenShare, sent, did,
                transport, roomHostId, toasts, dropped>>

vars == <<serverVars, clientVars>>

----------------------------------------------------------------------------
(* JavaScript values that are not strings *)

Null == <<"null">>

Undefined == <<"undefined">>

(* !x for the values a string-typed field can hold: null, undefined, "" *)
Falsy(x) == x = Null \/ x = Undefined \/ x = <<>>

(* A number other than 0 and NaN *)
NumberValue == <<"number">>

(* An object literal: a session description { type, sdp } or a candidate  *)
(* { candidate }; a field that is absent reads as undefined                *)
sessionDescription(type, sdp) == <<"object", type, sdp>>

iceCandidateInit(candidate) == <<"object", candidate>>

(* typeof x === 'object' *)
typeofObject(x) == x = Null \/ (Len(x) > 0 /\ x[1] = "object")

(* typeof x === 'string' *)
IsString(x) == x # Null /\ x # Undefined /\ x # NumberValue /\ ~typeofObject(x)

----------------------------------------------------------------------------
(* String primitives *)

LowerLetters ==
  <<"a","b","c","d","e","f","g","h","i","j","k","l","m",
    "n","o","p","q","r","s","t","u","v","w","x","y","z">>

UpperLetters ==
  <<"A","B","C","D","E","F","G","H","I","J","K","L","M",
    "N","O","P","Q","R","S","T","U","V","W","X","Y","Z">>

Digits == {"0","1","2","3","4","5","6","7","8","9"}

Range(f) == {f[i] : i \in DOMAIN f}

AlnumChars == Range(LowerLetters) \cup Range(UpperLetters) \cup Digits

IsAlnum(ch) == ch \in AlnumChars

SpaceChars == {" ", "\t", "\n"}

IsSpace(ch) == ch \in SpaceChars

RECURSIVE trimStart(_)
trimStart(s) ==
  IF s # <<>> /\ IsSpace(Head(s)) THEN trimStart(Tail(s)) ELSE s

RECURSIVE trimEnd(_)
trimEnd(s) ==
  IF s # <<>> /\ IsSpace(s[Len(s)]) THEN trimEnd(SubSeq(s, 1, Len(s) - 1)) ELSE s

trim(s) == trimEnd(trimStart(s))

UpperOf ==
  [ch \in Range(LowerLetters) |->
     UpperLetters[CHOOSE i \in DOMAIN LowerLetters : LowerLetters[i] = ch]]

upperChar(ch) == IF ch \in DOMAIN UpperOf THEN UpperOf[ch] ELSE ch

toUpperCase(s) == [i \in DOMAIN s |-> upperChar(s[i])]

Min(a, b) == IF a < b THEN a ELSE b

(* str.substring(0, n) *)
substring0(s, n) == SubSeq(s, 1, Min(n, Len(s)))

(* str.replace(/[<>]/g, '') *)
stripAngles(s) == SelectSeq(s, LAMBDA ch : ch \notin {"<", ">"})

----------------------------------------------------------------------------
(* socket.js: input validation helpers *)

RoomIdMinLen == 4

RoomIdMaxLen == 20

UserIdMinLen == 3

UserIdMaxLen == 50

NameMaxLen == 50

validateRoomId(roomId) ==
  IF Falsy(roomId) \/ ~IsString(roomId) THEN FALSE
  ELSE LET t == trim(roomId)
       IN /\ Len(t) >= RoomIdMinLen
          /\ Len(t) <= RoomIdMaxLen
          /\ \A i \in DOMAIN t : IsAlnum(t[i])

validateUserId(userId) ==
  IF Falsy(userId) \/ ~IsString(userId) THEN FALSE
  ELSE LET t == trim(userId)
       IN /\ Len(t) >= UserIdMinLen
          /\ Len(t) <= UserIdMaxLen
          /\ \A i \in DOMAIN t : IsAlnum(t[i])

sanitizeString(str, maxLength) ==
  IF ~IsString(str) THEN <<>>
  ELSE stripAngles(substring0(trim(str), maxLength))

(* roomId.trim().toUpperCase() *)
normalize(roomId) == toUpperCase(trim(roomId))

----------------------------------------------------------------------------
(* roomManager.js: the registry is a map roomId -> room; room.users is an  *)
(* insertion-ordered map, kept as the sequence of its values.  A user's    *)
(* joinedAt is written once and read nowhere; it is not kept.  Every       *)
(* operation yields the registry it leaves and the lines it logs.          *)

NoRoom == [id |-> Null, users |-> <<>>, hostId |-> Null, createdAt |-> 0]

NoUser == [socketId |-> Null, userId |-> Null, name |-> Null]

EmptyRegistry == [k \in {} |-> NoRoom]

LogLine(tag, args) == [tag |-> tag, args |-> args]

has(rs, roomId) == roomId \in DOMAIN rs

usersHas(room, socketId) == \E i \in DOMAIN room.users : room.users[i].socketId = socketId

usersGet(room, socketId) ==
  IF usersHas(room, socketId)
  THEN room.users[CHOOSE i \in DOMAIN room.users : room.users[i].socketId = socketId]
  ELSE NoUser

usersDelete(room, socketId) == SelectSeq(room.users, LAMBDA u : u.socketId # socketId)

putRoom(rs, roomId, room) ==
  [k \in DOMAIN rs \cup {roomId} |-> IF k = roomId THEN room ELSE rs[k]]

deleteRoom(rs, roomId) == [k \in DOMAIN rs \ {roomId} |-> rs[k]]

(* createRoom that stores a new room whether or not the id has one *)
createRoomAlwaysFresh(rs, roomId, t) ==
  LET room == [id |-> roomId, users |-> <<>>, hostId |-> Null, createdAt |-> t]
  IN [rooms |-> putRoom(rs, roomId, room),
      log   |-> <<LogLine("Room created", <<roomId>>)>>,
      room  |-> room]

createRoom(rs, roomId, t) ==
  IF has(rs, roomId) THEN [rooms |-> rs, log |-> <<>>, room |-> rs[roomId]]
  ELSE LET room == [id |-> roomId, users |-> <<>>, hostId |-> Null, createdAt |-> t]
       IN [rooms |-> putRoom(rs, roomId, room),
           log   |-> <<LogLine("Room created", <<roomId>>)>>,
           room  |-> room]

getRoom(rs, roomId) == IF has(rs, roomId) THEN rs[roomId] ELSE NoRoom

MaxUsers == 2

DefaultNamePrefix == <<"U","s","e","r"," ">>

(* The user record addUser stores *)
newUser(socketId, userData) ==
  [socketId |-> socketId, userId |-> userData.userId,
   name |-> IF Falsy(userData.name)
            THEN DefaultNamePrefix \o substring0(userData.userId, 4)
            ELSE userData.name]

addUserFailed(rs, e) ==
  [success |-> FALSE, error |-> e, rooms |-> rs, log |-> <<>>,
   user |-> NoUser, isHost |-> FALSE]

(* room.users.set with the given hostId, and the result addUser returns *)
addUserDone(rs, roomId, room, user, hostId) ==
  LET users1 == Append(room.users, user)
  IN [success |-> TRUE, error |-> "",
      rooms   |-> putRoom(rs, roomId, [room EXCEPT !.users = users1, !.hostId = hostId]),
      log     |-> <<LogLine("User joined", <<user.userId, roomId, Len(users1)>>)>>,
      user    |-> user,
      isHost  |-> hostId = user.socketId]

(* hostId after room.users.set: the first user becomes host if none is *)
firstUserIsHost(room, socketId) ==
  LET size == Len(room.users) + 1
  IN IF Falsy(room.hostId) /\ size = 1 THEN socketId ELSE room.hostId

(* addUser without the check of lines 60-63 *)
addUserMissingCapacityCheck(rs, roomId, socketId, userData) ==
  LET room == getRoom(rs, roomId)
  IN IF room = NoRoom THEN addUserFailed(rs, "Room not found")
     ELSE IF usersHas(room, socketId) THEN addUserFailed(rs, "User already in room")
     ELSE addUserDone(rs, roomId, room, newUser(socketId, userData),
                      firstUserIsHost(room, socketId))

(* addUser with > in place of >= in the capacity check *)
addUserCapacityOffByOne(rs, roomId, socketId, userData) ==
  LET room == getRoom(rs, roomId)
  IN IF room = NoRoom THEN addUserFailed(rs, "Room not found")
     ELSE IF Len(room.users) > MaxUsers THEN addUserFailed(rs, "Room is full")
     ELSE IF usersHas(room, socketId) THEN addUserFailed(rs, "User already in room")
     ELSE addUserDone(rs, roomId, room, newUser(socketId, userData),
                      firstUserIsHost(room, socketId))

(* addUser that never makes the first user host *)
addUserNoFirstHost(rs, roomId, socketId, userData) ==
  LET room == getRoom(rs, roomId)
  IN IF room = NoRoom THEN addUserFailed(rs, "Room not found")
     ELSE IF Len(room.users) >= MaxUsers THEN addUserFailed(rs, "Room is full")
     ELSE IF usersHas(room, socketId) THEN addUserFailed(rs, "User already in room")
     ELSE addUserDone(rs, roomId, room, newUser(socketId, userData), room.hostId)

addUser(rs, roomId, socketId, userData) ==
  LET room == getRoom(rs, roomId)
  IN IF room = NoRoom THEN addUserFailed(rs, "Room not found")
     ELSE IF Len(room.users) >= MaxUsers THEN addUserFailed(rs, "Room is full")
     ELSE IF usersHas(room, socketId) THEN addUserFailed(rs, "User already in room")
     ELSE addUserDone(rs, roomId, room, newUser(socketId, userData),
                      firstUserIsHost(room, socketId))

removeUserFailed(rs, e) ==
  [success |-> FALSE, error |-> e, rooms |-> rs, log |-> <<>>,
   user |-> NoUser, wasHost |-> FALSE, newHostId |-> Null]

(* removeUser that leaves hostId alone when the host goes *)
removeUserNoSuccession(rs, roomId, socketId) ==
  LET room    == getRoom(rs, roomId)
      user    == usersGet(room, socketId)
      users1  == usersDelete(room, socketId)
      room1   == [room EXCEPT !.users = users1,
                              !.hostId = IF Len(users1) = 0 THEN Null ELSE room.hostId]
  IN IF room = NoRoom THEN removeUserFailed(rs, "Room not found")
     ELSE IF user = NoUser THEN removeUserFailed(rs, "User not in room")
     ELSE [success |-> TRUE, error |-> "",
           rooms   |-> IF Len(users1) = 0 THEN deleteRoom(rs, roomId)
                       ELSE putRoom(rs, roomId, room1),
           log     |-> IF Len(users1) = 0
                       THEN <<LogLine("Room deleted", <<roomId>>)>>
                       ELSE <<LogLine("User left", <<user.userId, roomId, Len(users1)>>)>>,
           user    |-> user,
           wasHost |-> room.hostId = socketId,
           newHostId |-> Null]

(* removeUser that keeps a room it has emptied *)
removeUserKeepsEmptyRoom(rs, roomId, socketId) ==
  LET room    == getRoom(rs, roomId)
      user    == usersGet(room, socketId)
      wasHost == room.hostId = socketId
      users1  == usersDelete(room, socketId)
      newHostId == IF wasHost /\ Len(users1) > 0 THEN users1[1].socketId ELSE Null
      host1   == IF wasHost /\ Len(users1) > 0 THEN newHostId
                 ELSE IF Len(users1) = 0 THEN Null
                 ELSE room.hostId
  IN IF room = NoRoom THEN removeUserFailed(rs, "Room not found")
     ELSE IF user = NoUser THEN removeUserFailed(rs, "User not in room")
     ELSE [success |-> TRUE, error |-> "",
           rooms   |-> putRoom(rs, roomId, [room EXCEPT !.users = users1, !.hostId = host1]),
           log     |-> <<LogLine("User left", <<user.userId, roomId, Len(users1)>>)>>,
           user    |-> user,
           wasHost |-> wasHost,
           newHostId |-> newHostId]

(* removeUser that makes the first remaining user host whoever leaves *)
removeUserFirstRemainingIsHost(rs, roomId, socketId) ==
  LET room    == getRoom(rs, roomId)
      user    == usersGet(room, socketId)
      wasHost == room.hostId = socketId
      users1  == usersDelete(room, socketId)
      newHostId == IF Len(users1) > 0 THEN users1[1].socketId ELSE Null
  IN IF room = NoRoom THEN removeUserFailed(rs, "Room not found")
     ELSE IF user = NoUser THEN removeUserFailed(rs, "User not in room")
     ELSE [success |-> TRUE, error |-> "",
           rooms   |-> IF Len(users1) = 0 THEN deleteRoom(rs, roomId)
                       ELSE putRoom(rs, roomId,
                                    [room EXCEPT !.users = users1, !.hostId = newHostId]),
           log     |-> IF Len(users1) = 0
                       THEN <<LogLine("Room deleted", <<roomId>>)>>
                       ELSE <<LogLine("User left", <<user.userId, roomId, Len(users1)>>)>>,
           user    |-> user,
           wasHost |-> wasHost,
           newHostId |-> newHostId]

removeUser(rs, roomId, socketId) ==
  LET room    == getRoom(rs, roomId)
      user    == usersGet(room, socketId)
      wasHost == room.hostId = socketId
      users1  == usersDelete(room, socketId)
      newHostId == IF wasHost /\ Len(users1) > 0 THEN users1[1].socketId ELSE Null
      host1   == IF wasHost /\ Len(users1) > 0 THEN newHostId
                 ELSE IF Len(users1) = 0 THEN Null
                 ELSE room.hostId
  IN IF room = NoRoom THEN removeUserFailed(rs, "Room not found")
     ELSE IF user = NoUser THEN removeUserFailed(rs, "User not in room")
     ELSE [success |-> TRUE, error |-> "",
           rooms   |-> IF Len(users1) = 0 THEN deleteRoom(rs, roomId)
                       ELSE putRoom(rs, roomId, [room EXCEPT !.users = users1, !.hostId = host1]),
           log     |-> IF Len(users1) = 0
                       THEN <<LogLine("Room deleted", <<roomId>>)>>
                       ELSE <<LogLine("User left", <<user.userId, roomId, Len(users1)>>)>>,
           user    |-> user,
           wasHost |-> wasHost,
           newHostId |-> newHostId]

(* getOtherUsers without the filter on the asking socket *)
getOtherUsersUnfiltered(rs, roomId, socketId) ==
  IF ~has(rs, roomId) THEN <<>>
  ELSE rs[roomId].users

getOtherUsers(rs, roomId, socketId) ==
  IF ~has(rs, roomId) THEN <<>>
  ELSE SelectSeq(rs[roomId].users, LAMBDA u : u.socketId # socketId)

(* setHost that reports success and assigns nothing *)
setHostKeepsOldHost(rs, roomId, socketId) ==
  LET room == getRoom(rs, roomId)
  IN IF room = NoRoom THEN [ok |-> FALSE, rooms |-> rs, log |-> <<>>]
     ELSE IF ~usersHas(room, socketId) THEN [ok |-> FALSE, rooms |-> rs, log |-> <<>>]
     ELSE [ok    |-> TRUE,
           rooms |-> rs,
           log   |-> <<LogLine("Host changed", <<roomId, room.hostId, socketId>>)>>]

setHost(rs, roomId, socketId) ==
  LET room == getRoom(rs, roomId)
  IN IF room = NoRoom THEN [ok |-> FALSE, rooms |-> rs, log |-> <<>>]
     ELSE IF ~usersHas(room, socketId) THEN [ok |-> FALSE, rooms |-> rs, log |-> <<>>]
     ELSE [ok    |-> TRUE,
           rooms |-> putRoom(rs, roomId, [room EXCEPT !.hostId = socketId]),
           log   |-> <<LogLine("Host changed", <<roomId, room.hostId, socketId>>)>>]

getUser(rs, roomId, socketId) ==
  IF ~has(rs, roomId) THEN NoUser ELSE usersGet(rs[roomId], socketId)

OneHour == 60 * 60 * 1000

RECURSIVE SetToSeq(_)
SetToSeq(S) ==
  IF S = {} THEN <<>>
  ELSE LET x == CHOOSE y \in S : TRUE IN <<x>> \o SetToSeq(S \ {x})

(* The registry's iteration order is not kept: the lines of one sweep come *)
(* in an arbitrary fixed order.                                            *)
(* cleanup that looks at the age of a room only, not at its users *)
cleanupIgnoringMembers(rs, t) ==
  LET stale == {r \in DOMAIN rs : (t - rs[r].createdAt) > OneHour}
      lines == SetToSeq(stale)
  IN [rooms |-> [k \in DOMAIN rs \ stale |-> rs[k]],
      log   |-> [i \in DOMAIN lines |-> LogLine("Cleaned up stale room", <<lines[i]>>)]]

(* cleanup with >= in place of > in the comparison of the age *)
cleanupAtTheHour(rs, t) ==
  LET stale == {r \in DOMAIN rs : Len(rs[r].users) = 0 /\ (t - rs[r].createdAt) >= OneHour}
      lines == SetToSeq(stale)
  IN [rooms |-> [k \in DOMAIN rs \ stale |-> rs[k]],
      log   |-> [i \in DOMAIN lines |-> LogLine("Cleaned up stale room", <<lines[i]>>)]]

cleanup(rs, t) ==
  LET stale == {r \in DOMAIN rs : Len(rs[r].users) = 0 /\ (t - rs[r].createdAt) > OneHour}
      lines == SetToSeq(stale)
  IN [rooms |-> [k \in DOMAIN rs \ stale |-> rs[k]],
      log   |-> [i \in DOMAIN lines |-> LogLine("Cleaned up stale room", <<lines[i]>>)]]

----------------------------------------------------------------------------
(* Bounds of the model: connections, request payloads, sampled instants.   *)
(* A client sends its own user id and display name; S1 and S3 are the same *)
(* user on two connections.                                                *)

S1 == <<"s","1">>

S2 == <<"s","2">>

S3 == <<"s","3">>

Sockets == {S1, S2, S3}

RoomABCD == <<"A","B","C","D">>

RoomAbcdCase == <<"a","b","C","d">>

RoomAbcdSpaced == <<" ","A","B","C","D"," ">>

RoomWXYZ == <<"W","X","Y","Z">>

RoomTooShort == <<"a","b">>

RoomIdInputs(s) ==
  {RoomABCD, IF s = S1 THEN RoomAbcdCase ELSE RoomAbcdSpaced}
    \cup (IF s = S3 THEN {RoomTooShort} ELSE {RoomWXYZ})

UserAnn == <<"a","n","n">>

UserBobby == <<" ","b","o","b","b","y">>

UserTooShort == <<"a","l">>

UserIdInputs(s) ==
  {IF s = S2 THEN UserBobby ELSE UserAnn} \cup (IF s = S3 THEN {UserTooShort} ELSE {})

NameAl == <<"<","A","l",">">>

NameOnlyAngles == <<"<",">">>

NameInputs(s) == {IF s = S1 THEN Undefined ELSE IF s = S2 THEN NameAl ELSE NameOnlyAngles}

RelayRoomIdInputs(s) ==
  {RoomABCD} \cup (IF s = S3 THEN {RoomTooShort} ELSE {RoomWXYZ})

(* Relayed payloads: a description, one without sdp, one without type, a  *)
(* candidate, one without its candidate field                              *)
SdpText == <<"v","=","0">>

DescOffer == sessionDescription(<<"o","f","f","e","r">>, SdpText)

DescAnswer == sessionDescription(<<"a","n","s","w","e","r">>, SdpText)

DescNoSdp == sessionDescription(<<"o","f","f","e","r">>, Undefined)

DescNoType == sessionDescription(Undefined, SdpText)

CandHost == iceCandidateInit(<<"c","a","n","d">>)

CandEmpty == iceCandidateInit(Undefined)

(* The messages <<payload, roomId, targetSocketId>> each connection may   *)
(* send.  A target is a connection id, absent, a number, or the name of a  *)
(* room.                                                                   *)
OfferInputs(s) ==
  IF s = S1 THEN {<<DescOffer, RoomABCD, Undefined>>, <<DescOffer, RoomAbcdCase, S2>>,
                  <<DescOffer, RoomABCD, S1>>, <<NumberValue, RoomABCD, S2>>}
  ELSE IF s = S2 THEN {<<DescOffer, RoomABCD, Undefined>>, <<DescNoSdp, RoomABCD, S1>>,
                       <<DescOffer, RoomWXYZ, S3>>, <<DescOffer, RoomWXYZ, RoomABCD>>}
  ELSE {<<DescOffer, RoomTooShort, S1>>, <<DescOffer, RoomABCD, NumberValue>>,
        <<DescOffer, RoomAbcdSpaced, S1>>, <<DescOffer, RoomABCD, Undefined>>}

AnswerInputs(s) ==
  IF s = S1 THEN {<<DescAnswer, RoomABCD, S2>>, <<DescAnswer, RoomABCD, Undefined>>,
                  <<DescAnswer, RoomAbcdCase, S1>>}
  ELSE IF s = S2 THEN {<<DescAnswer, RoomAbcdSpaced, S1>>, <<DescNoType, RoomABCD, S1>>,
                       <<DescAnswer, RoomWXYZ, S3>>, <<DescAnswer, RoomWXYZ, RoomABCD>>}
  ELSE {<<DescAnswer, RoomTooShort, S1>>, <<DescAnswer, RoomABCD, NumberValue>>,
        <<Null, RoomABCD, S1>>, <<DescAnswer, RoomABCD, S1>>}

IceCandidateInputs(s) ==
  IF s = S1 THEN {<<CandHost, RoomABCD, Undefined>>, <<CandHost, RoomAbcdCase, S2>>,
                  <<Null, RoomABCD, S2>>, <<CandHost, RoomABCD, S1>>}
  ELSE IF s = S2 THEN {<<CandHost, RoomABCD, Undefined>>, <<CandEmpty, RoomABCD, S1>>,
                       <<CandHost, RoomWXYZ, S3>>, <<CandHost, RoomWXYZ, RoomABCD>>,
                       <<NumberValue, RoomABCD, S1>>}
  ELSE {<<CandHost, RoomTooShort, S1>>, <<CandHost, RoomABCD, NumberValue>>,
        <<CandHost, RoomAbcdSpaced, S1>>, <<CandHost, Undefined, S1>>}

MaxHours == 1

Late == OneHour + 1000

TimePoints == {0} \cup {(h - 1) * OneHour + Late : h \in 1..MaxHours}

(* The connections and instants of the sweeper's specification: each full  *)
(* hour and one second after it                                            *)
SweepSockets == {S1, S2}

OneSecond == 1000

SweepTimePoints == {h * OneHour + d : h \in 0..MaxHours, d \in {0, OneSecond}}

----------------------------------------------------------------------------
(* Socket.IO emission: socket.emit, socket.to(room).emit, io.to(room).emit. *)
(* Every connected socket is in the room named by its own id.              *)

inRoom(sio, cn, roomName) ==
  {s \in Sockets : cn[s] = "open" /\ (s = roomName \/ roomName \in sio[s])}

Msg(to, type, body) == [to |-> to, type |-> type, body |-> body]

emitTo(recipients, type, body) ==
  LET order == SetToSeq(recipients)
  IN [i \in DOMAIN order |-> Msg(order[i], type, body)]

socketEmit(socket, type, body) == <<Msg(socket, type, body)>>

(* socket.to(room).emit broadcasting like io.to(room).emit, sender included *)
socketToEmitIncludingSender(sio, cn, socket, roomName, type, body) ==
  emitTo(inRoom(sio, cn, roomName), type, body)

socketToEmit(sio, cn, socket, roomName, type, body) ==
  emitTo(inRoom(sio, cn, roomName) \ {socket}, type, body)

ioToEmit(sio, cn, roomName, type, body) ==
  emitTo(inRoom(sio, cn, roomName), type, body)

ErrorMsg(socket, text) == socketEmit(socket, "error", [message |-> text])

----------------------------------------------------------------------------
(* socket.js: handleLeaveRoom, as a function of the registry and the       *)
(* Socket.IO room membership; yields both, the messages emitted and the    *)
(* lines logged.                                                           *)

(* handleLeaveRoom that does not announce the new host *)
handleLeaveRoomSilentSuccession(rs, sio, cn, socket, roomId) ==
  LET result == removeUser(rs, roomId, socket)
      sio1   == [sio EXCEPT ![socket] = @ \ {roomId}]
      peerLeft == socketToEmit(sio1, cn, socket, roomId, "peer-left",
                               [userId |-> result.user.userId, socketId |-> socket])
  IN IF result.success
     THEN [rooms |-> result.rooms, sio |-> sio1, out |-> peerLeft, log |-> result.log]
     ELSE [rooms |-> rs, sio |-> sio, out |-> <<>>, log |-> <<>>]

(* handleLeaveRoom that announces the leave but keeps the member in the    *)
(* registry                                                                *)
handleLeaveRoomKeepingMember(rs, sio, cn, socket, roomId) ==
  LET result == removeUser(rs, roomId, socket)
      sio1   == [sio EXCEPT ![socket] = @ \ {roomId}]
      peerLeft == socketToEmit(sio1, cn, socket, roomId, "peer-left",
                               [userId |-> result.user.userId, socketId |-> socket])
  IN IF result.success
     THEN [rooms |-> rs, sio |-> sio1, out |-> peerLeft, log |-> result.log]
     ELSE [rooms |-> rs, sio |-> sio, out |-> <<>>, log |-> <<>>]

handleLeaveRoom(rs, sio, cn, socket, roomId) ==
  LET result == removeUser(rs, roomId, socket)
      sio1   == [sio EXCEPT ![socket] = @ \ {roomId}]
      peerLeft == socketToEmit(sio1, cn, socket, roomId, "peer-left",
                               [userId |-> result.user.userId, socketId |-> socket])
      newHost == getUser(result.rooms, roomId, result.newHostId)
      hostChanged ==
        IF result.wasHost /\ ~Falsy(result.newHostId) /\ newHost # NoUser
        THEN ioToEmit(sio1, cn, roomId, "host-changed",
                      [hostId |-> newHost.userId, hostName |-> newHost.name,
                       socketId |-> result.newHostId])
        ELSE <<>>
  IN IF result.success
     THEN [rooms |-> result.rooms, sio |-> sio1, out |-> peerLeft \o hostChanged,
           log |-> result.log]
     ELSE [rooms |-> rs, sio |-> sio, out |-> <<>>, log |-> <<>>]

----------------------------------------------------------------------------
----------------------------------------------------------------------------
(* The clients.  Two browsers open the page of room ABCD; each has one     *)
(* socket and one RTCPeerConnection.                                       *)

Peers == {S1, S2}

(* The user id the page of each client generated *)
UserIdOf(c) == IF c = S1 THEN UserAnn ELSE trim(UserBobby)

(* new RTCPeerConnection(ICE_SERVERS): signalingState, localDescription    *)
(* and remoteDescription as the browser exposes them; candidates are the   *)
(* remote candidates addIceCandidate has taken, gathered counts the local  *)
(* candidates handed to onicecandidate                                     *)
newPeerConnection ==
  [signalingState |-> "stable", localDescription |-> Null, remoteDescription |-> Null,
   candidates |-> <<>>, gathered |-> 0]

(* What a step of a client is recorded as *)
Did(op, c, arg) == [op |-> op, sid |-> c, arg |-> arg]

(* Both pages have run initializePeerConnection; no socket has joined *)
ClientsLoaded ==
  /\ session = <<>>
  /\ pc = [c \in Peers |-> newPeerConnection]
  /\ isCreatingOfferRef = [c \in Peers |-> FALSE]
  /\ targetSocketIdRef = [c \in Peers |-> Null]
  /\ pendingCandidatesRef = [c \in Peers |-> <<>>]
  /\ operations = [c \in Peers |-> <<>>]
  /\ inbox = [c \in Peers |-> <<>>]
  /\ timeouts = [c \in Peers |-> <<>>]
  /\ storeHostId = [c \in Peers |-> Null]
  /\ screenShare = [c \in Peers |-> 0]
  /\ transport = [c \in Peers |-> "opening"]
  /\ roomHostId = Null
  /\ toasts = <<>>
  /\ dropped = <<>>
  /\ sent = <<>>
  /\ did = Did("init", Null, Null)

Event(op, s, roomId, userId, name) ==
  [op |-> op, sid |-> s, roomId |-> roomId, userId |-> userId, name |-> name]

(* State after setupSocketHandlers: empty registry, no client connected *)

Init ==
  /\ rooms = EmptyRegistry
  /\ conn = [s \in Sockets |-> "closed"]
  /\ currentRoomId = [s \in Sockets |-> Null]
  /\ sioRooms = [s \in Sockets |-> {}]
  /\ now = 0
  /\ outbox = <<>>
  /\ rmLog = <<>>
  /\ event = Event("init", Null, Undefined, Undefined, Undefined)
  /\ ClientsLoaded

(* io.on('connection') *)
Connect(s) ==
  /\ event' = Event("connection", s, Undefined, Undefined, Undefined)
  /\ UNCHANGED clientVars
  /\ conn[s] = "closed"
  /\ conn' = [conn EXCEPT ![s] = "open"]
  /\ outbox' = <<>>
  /\ rmLog' = <<>>
  /\ UNCHANGED <<rooms, currentRoomId, sioRooms, now>>

(* socket.on('join-room') *)
JoinRoom(s, roomId, userId, name) ==
  /\ event' = Event("join-room", s, roomId, userId, name)
  /\ UNCHANGED clientVars
  /\ conn[s] = "open"
  /\ UNCHANGED <<conn, now>>
  /\ IF ~validateRoomId(roomId)
     THEN /\ outbox' = ErrorMsg(s, "Invalid roomId format")
          /\ rmLog' = <<>>
          /\ UNCHANGED <<rooms, currentRoomId, sioRooms>>
     ELSE IF ~validateUserId(userId)
     THEN /\ outbox' = ErrorMsg(s, "Invalid userId format")
          /\ rmLog' = <<>>
          /\ UNCHANGED <<rooms, currentRoomId, sioRooms>>
     ELSE
       \E sanitizedName \in {IF ~Falsy(name) THEN sanitizeString(name, NameMaxLen) ELSE Undefined} :
       \E left \in {IF ~Falsy(currentRoomId[s]) /\ currentRoomId[s] # roomId
                   THEN handleLeaveRoom(rooms, sioRooms, conn, s, currentRoomId[s])
                   ELSE [rooms |-> rooms, sio |-> sioRooms, out |-> <<>>, log |-> <<>>]} :
       \E created \in {IF ~has(left.rooms, roomId) THEN createRoom(left.rooms, roomId, now)
                      ELSE [rooms |-> left.rooms, log |-> <<>>]} :
       \E joined \in {normalize(roomId)} :
       \E result \in {addUser(created.rooms, joined, s,
                             [userId |-> trim(userId), name |-> sanitizedName])} :
       \E sio1 \in {[left.sio EXCEPT ![s] = @ \cup {joined}]} :
       \E otherUsers \in {getOtherUsers(result.rooms, joined, s)} :
       LET
           roomJoined ==
             socketEmit(s, "room-joined",
                        [roomId |-> joined, userId |-> result.user.userId,
                         isHost |-> result.isHost,
                         otherUsers |-> [i \in DOMAIN otherUsers |->
                                           [userId |-> otherUsers[i].userId,
                                            name |-> otherUsers[i].name]]])
           peerJoined ==
             IF Len(otherUsers) > 0
             THEN socketToEmit(sio1, conn, s, joined, "peer-joined",
                               [userId |-> result.user.userId, name |-> result.user.name,
                                socketId |-> s])
                  \o ioToEmit(sio1, conn, otherUsers[1].socketId, "create-offer",
                              [targetSocketId |-> s, targetUserId |-> result.user.userId])
             ELSE <<>>
       IN IF ~result.success
          THEN /\ rooms' = created.rooms
               /\ sioRooms' = left.sio
               /\ outbox' = left.out \o ErrorMsg(s, result.error)
               /\ rmLog' = left.log \o created.log
               /\ UNCHANGED currentRoomId
          ELSE /\ rooms' = result.rooms
               /\ sioRooms' = sio1
               /\ currentRoomId' = [currentRoomId EXCEPT ![s] = joined]
               /\ outbox' = left.out \o roomJoined \o peerJoined
               /\ rmLog' = left.log \o created.log \o result.log

(* socket.on('host-changed') *)
HostChanged(s, roomId) ==
  /\ event' = Event("host-changed", s, roomId, Undefined, Undefined)
  /\ UNCHANGED clientVars
  /\ conn[s] = "open"
  /\ UNCHANGED <<conn, currentRoomId, sioRooms, now>>
  /\ IF ~validateRoomId(roomId)
     THEN /\ outbox' = ErrorMsg(s, "Invalid roomId format")
          /\ rmLog' = <<>>
          /\ UNCHANGED rooms
     ELSE
       \E normalizedRoomId \in {normalize(roomId)} :
       \E room \in {getRoom(rooms, normalizedRoomId)} :
       \E res \in {setHost(rooms, normalizedRoomId, s)} :
       \E newHost \in {usersGet(room, s)} :
          IF room = NoRoom \/ ~usersHas(room, s)
          THEN /\ outbox' = ErrorMsg(s, "Not in room")
               /\ rmLog' = <<>>
               /\ UNCHANGED rooms
          ELSE /\ rooms' = res.rooms
               /\ rmLog' = res.log
               /\ outbox' = IF res.ok
                            THEN ioToEmit(sioRooms, conn, normalizedRoomId, "host-changed",
                                          [hostId |-> newHost.userId,
                                           hostName |-> newHost.name,
                                           socketId |-> s])
                            ELSE <<>>

RelayEvent(op, s, payload, roomId, targetSocketId) ==
  [op |-> op, sid |-> s, roomId |-> roomId, payload |-> payload,
   targetSocketId |-> targetSocketId]

(* The offer handler without the check of the offer's format *)
OfferWithoutFormatCheck(s, offer, roomId, targetSocketId) ==
  /\ event' = RelayEvent("offer", s, offer, roomId, targetSocketId)
  /\ UNCHANGED clientVars
  /\ conn[s] = "open"
  /\ rmLog' = <<>>
  /\ UNCHANGED <<rooms, conn, currentRoomId, sioRooms, now>>
  /\ outbox' =
       IF ~validateRoomId(roomId)
       THEN ErrorMsg(s, "Invalid roomId format")
       ELSE
         LET normalizedRoomId == normalize(roomId)
             room == getRoom(rooms, normalizedRoomId)
             body == [offer |-> offer, fromSocketId |-> s,
                      fromUserId |-> usersGet(room, s).userId]
         IN IF room = NoRoom \/ ~usersHas(room, s)
            THEN ErrorMsg(s, "Not in room")
            ELSE IF ~Falsy(targetSocketId) /\ ~IsString(targetSocketId)
            THEN ErrorMsg(s, "Invalid targetSocketId")
            ELSE IF ~Falsy(targetSocketId)
            THEN socketToEmit(sioRooms, conn, s, targetSocketId, "offer", body)
            ELSE socketToEmit(sioRooms, conn, s, normalizedRoomId, "offer", body)

(* The offer handler looking only for the room, not for the sender in it *)
OfferWithoutMemberCheck(s, offer, roomId, targetSocketId) ==
  /\ event' = RelayEvent("offer", s, offer, roomId, targetSocketId)
  /\ UNCHANGED clientVars
  /\ conn[s] = "open"
  /\ rmLog' = <<>>
  /\ UNCHANGED <<rooms, conn, currentRoomId, sioRooms, now>>
  /\ outbox' =
       IF Falsy(offer) \/ ~typeofObject(offer) \/ Falsy(offer[2]) \/ Falsy(offer[3])
       THEN ErrorMsg(s, "Invalid offer format")
       ELSE IF ~validateRoomId(roomId)
       THEN ErrorMsg(s, "Invalid roomId format")
       ELSE
         LET normalizedRoomId == normalize(roomId)
             room == getRoom(rooms, normalizedRoomId)
             body == [offer |-> offer, fromSocketId |-> s,
                      fromUserId |-> usersGet(room, s).userId]
         IN IF room = NoRoom
            THEN ErrorMsg(s, "Not in room")
            ELSE IF ~Falsy(targetSocketId) /\ ~IsString(targetSocketId)
            THEN ErrorMsg(s, "Invalid targetSocketId")
            ELSE IF ~Falsy(targetSocketId)
            THEN socketToEmit(sioRooms, conn, s, targetSocketId, "offer", body)
            ELSE socketToEmit(sioRooms, conn, s, normalizedRoomId, "offer", body)

(* socket.on('offer') *)
Offer(s, offer, roomId, targetSocketId) ==
  /\ event' = RelayEvent("offer", s, offer, roomId, targetSocketId)
  /\ UNCHANGED clientVars
  /\ conn[s] = "open"
  /\ rmLog' = <<>>
  /\ UNCHANGED <<rooms, conn, currentRoomId, sioRooms, now>>
  /\ outbox' =
       IF Falsy(offer) \/ ~typeofObject(offer) \/ Falsy(offer[2]) \/ Falsy(offer[3])
       THEN ErrorMsg(s, "Invalid offer format")
       ELSE IF ~validateRoomId(roomId)
       THEN ErrorMsg(s, "Invalid roomId format")
       ELSE
         LET normalizedRoomId == normalize(roomId)
             room == getRoom(rooms, normalizedRoomId)
             body == [offer |-> offer, fromSocketId |-> s,
                      fromUserId |-> usersGet(room, s).userId]
         IN IF room = NoRoom \/ ~usersHas(room, s)
            THEN ErrorMsg(s, "Not in room")
            ELSE IF ~Falsy(targetSocketId) /\ ~IsString(targetSocketId)
            THEN ErrorMsg(s, "Invalid targetSocketId")
            ELSE IF ~Falsy(targetSocketId)
            THEN socketToEmit(sioRooms, conn, s, targetSocketId, "offer", body)
            ELSE socketToEmit(sioRooms, conn, s, normalizedRoomId, "offer", body)

(* The answer handler relaying to the room instead of the target *)
AnswerToTheRoom(s, answer, roomId, targetSocketId) ==
  /\ event' = RelayEvent("answer", s, answer, roomId, targetSocketId)
  /\ UNCHANGED clientVars
  /\ conn[s] = "open"
  /\ rmLog' = <<>>
  /\ UNCHANGED <<rooms, conn, currentRoomId, sioRooms, now>>
  /\ outbox' =
       IF Falsy(answer) \/ ~typeofObject(answer) \/ Falsy(answer[2]) \/ Falsy(answer[3])
       THEN ErrorMsg(s, "Invalid answer format")
       ELSE IF ~validateRoomId(roomId)
       THEN ErrorMsg(s, "Invalid roomId format")
       ELSE IF Falsy(targetSocketId) \/ ~IsString(targetSocketId)
       THEN ErrorMsg(s, "Invalid targetSocketId")
       ELSE
         LET normalizedRoomId == normalize(roomId)
             room == getRoom(rooms, normalizedRoomId)
             body == [answer |-> answer, fromSocketId |-> s,
                      fromUserId |-> usersGet(room, s).userId]
         IN IF room = NoRoom \/ ~usersHas(room, s)
            THEN ErrorMsg(s, "Not in room")
            ELSE socketToEmit(sioRooms, conn, s, normalizedRoomId, "answer", body)

(* socket.on('answer') *)
Answer(s, answer, roomId, targetSocketId) ==
  /\ event' = RelayEvent("answer", s, answer, roomId, targetSocketId)
  /\ UNCHANGED clientVars
  /\ conn[s] = "open"
  /\ rmLog' = <<>>
  /\ UNCHANGED <<rooms, conn, currentRoomId, sioRooms, now>>
  /\ outbox' =
       IF Falsy(answer) \/ ~typeofObject(answer) \/ Falsy(answer[2]) \/ Falsy(answer[3])
       THEN ErrorMsg(s, "Invalid answer format")
       ELSE IF ~validateRoomId(roomId)
       THEN ErrorMsg(s, "Invalid roomId format")
       ELSE IF Falsy(targetSocketId) \/ ~IsString(targetSocketId)
       THEN ErrorMsg(s, "Invalid targetSocketId")
       ELSE
         LET normalizedRoomId == normalize(roomId)
             room == getRoom(rooms, normalizedRoomId)
             body == [answer |-> answer, fromSocketId |-> s,
                      fromUserId |-> usersGet(room, s).userId]
         IN IF room = NoRoom \/ ~usersHas(room, s)
            THEN ErrorMsg(s, "Not in room")
            ELSE socketToEmit(sioRooms, conn, s, targetSocketId, "answer", body)

(* The ice-candidate handler answering a non-member as the offer handler   *)
(* does                                                                    *)
IceCandidateAnsweringOutsiders(s, candidate, roomId, targetSocketId) ==
  /\ event' = RelayEvent("ice-candidate", s, candidate, roomId, targetSocketId)
  /\ UNCHANGED clientVars
  /\ conn[s] = "open"
  /\ rmLog' = <<>>
  /\ UNCHANGED <<rooms, conn, currentRoomId, sioRooms, now>>
  /\ outbox' =
       IF Falsy(candidate) \/ Falsy(roomId)
       THEN <<>>
       ELSE IF ~validateRoomId(roomId)
       THEN <<>>
       ELSE
         LET normalizedRoomId == normalize(roomId)
             room == getRoom(rooms, normalizedRoomId)
             body == [candidate |-> candidate, fromSocketId |-> s]
         IN IF room = NoRoom \/ ~usersHas(room, s)
            THEN ErrorMsg(s, "Not in room")
            ELSE IF ~typeofObject(candidate) \/ Falsy(candidate[2])
            THEN <<>>
            ELSE IF ~Falsy(targetSocketId) /\ ~IsString(targetSocketId)
            THEN <<>>
            ELSE IF ~Falsy(targetSocketId)
            THEN socketToEmit(sioRooms, conn, s, targetSocketId, "ice-candidate", body)
            ELSE socketToEmit(sioRooms, conn, s, normalizedRoomId, "ice-candidate", body)

(* The ice-candidate handler broadcasting with io.to(room) in place of     *)
(* socket.to(room)                                                         *)
IceCandidateEchoed(s, candidate, roomId, targetSocketId) ==
  /\ event' = RelayEvent("ice-candidate", s, candidate, roomId, targetSocketId)
  /\ UNCHANGED clientVars
  /\ conn[s] = "open"
  /\ rmLog' = <<>>
  /\ UNCHANGED <<rooms, conn, currentRoomId, sioRooms, now>>
  /\ outbox' =
       IF Falsy(candidate) \/ Falsy(roomId)
       THEN <<>>
       ELSE IF ~validateRoomId(roomId)
       THEN <<>>
       ELSE
         LET normalizedRoomId == normalize(roomId)
             room == getRoom(rooms, normalizedRoomId)
             body == [candidate |-> candidate, fromSocketId |-> s]
         IN IF room = NoRoom \/ ~usersHas(room, s)
            THEN <<>>
            ELSE IF ~typeofObject(candidate) \/ Falsy(candidate[2])
            THEN <<>>
            ELSE IF ~Falsy(targetSocketId) /\ ~IsString(targetSocketId)
            THEN <<>>
            ELSE IF ~Falsy(targetSocketId)
            THEN socketToEmit(sioRooms, conn, s, targetSocketId, "ice-candidate", body)
            ELSE ioToEmit(sioRooms, conn, normalizedRoomId, "ice-candidate", body)

(* socket.on('ice-candidate'): every rejection is a silent return *)
IceCandidate(s, candidate, roomId, targetSocketId) ==
  /\ event' = RelayEvent("ice-candidate", s, candidate, roomId, targetSocketId)
  /\ UNCHANGED clientVars
  /\ conn[s] = "open"
  /\ rmLog' = <<>>
  /\ UNCHANGED <<rooms, conn, currentRoomId, sioRooms, now>>
  /\ outbox' =
       IF Falsy(candidate) \/ Falsy(roomId)
       THEN <<>>
       ELSE IF ~validateRoomId(roomId)
       THEN <<>>
       ELSE
         LET normalizedRoomId == normalize(roomId)
             room == getRoom(rooms, normalizedRoomId)
             body == [candidate |-> candidate, fromSocketId |-> s]
         IN IF room = NoRoom \/ ~usersHas(room, s)
            THEN <<>>
            ELSE IF ~typeofObject(candidate) \/ Falsy(candidate[2])
            THEN <<>>
            ELSE IF ~Falsy(targetSocketId) /\ ~IsString(targetSocketId)
            THEN <<>>
            ELSE IF ~Falsy(targetSocketId)
            THEN socketToEmit(sioRooms, conn, s, targetSocketId, "ice-candidate", body)
            ELSE socketToEmit(sioRooms, conn, s, normalizedRoomId, "ice-candidate", body)

(* socket.on('leave-room') *)
LeaveRoom(s) ==
  /\ event' = Event("leave-room", s, Undefined, Undefined, Undefined)
  /\ UNCHANGED clientVars
  /\ conn[s] = "open"
  /\ UNCHANGED <<conn, now>>
  /\ IF ~Falsy(currentRoomId[s])
     THEN \E left \in {handleLeaveRoom(rooms, sioRooms, conn, s, currentRoomId[s])} :
             /\ rooms' = left.rooms
             /\ sioRooms' = left.sio
             /\ outbox' = left.out
             /\ rmLog' = left.log
             /\ currentRoomId' = [currentRoomId EXCEPT ![s] = Null]
     ELSE /\ outbox' = <<>>
          /\ rmLog' = <<>>
          /\ UNCHANGED <<rooms, sioRooms, currentRoomId>>

(* A disconnect handler that does not call handleLeaveRoom *)
DisconnectWithoutCleanup(s) ==
  /\ event' = Event("disconnect", s, Undefined, Undefined, Undefined)
  /\ UNCHANGED clientVars
  /\ conn[s] = "open"
  /\ conn' = [conn EXCEPT ![s] = "closed"]
  /\ currentRoomId' = [currentRoomId EXCEPT ![s] = Null]
  /\ sioRooms' = [sioRooms EXCEPT ![s] = {}]
  /\ outbox' = <<>>
  /\ rmLog' = <<>>
  /\ UNCHANGED <<rooms, now>>

(* socket.on('disconnect'): Socket.IO has already taken the socket out of  *)
(* every room when the handler runs.  The connection and its closure       *)
(* (currentRoomId) are gone afterwards; the name s then stands for a later *)
(* connection, which Socket.IO gives a fresh id and a fresh closure.       *)
Disconnect(s) ==
  /\ event' = Event("disconnect", s, Undefined, Undefined, Undefined)
  /\ UNCHANGED clientVars
  /\ conn[s] = "open"
  /\ conn' = [conn EXCEPT ![s] = "closed"]
  /\ currentRoomId' = [currentRoomId EXCEPT ![s] = Null]
  /\ UNCHANGED now
  /\ LET cn1  == [conn EXCEPT ![s] = "closed"]
         sio0 == [sioRooms EXCEPT ![s] = {}]
     IN IF ~Falsy(currentRoomId[s])
        THEN \E left \in {handleLeaveRoom(rooms, sio0, cn1, s, currentRoomId[s])} :
                /\ rooms' = left.rooms
                /\ sioRooms' = left.sio
                /\ outbox' = left.out
                /\ rmLog' = left.log
        ELSE /\ rooms' = rooms
             /\ sioRooms' = sio0
             /\ outbox' = <<>>
             /\ rmLog' = <<>>

(* setInterval(() => roomManager.cleanup(), 60 * 60 * 1000).  The phase of *)
(* the timer against the sampled instants is left free: a sweep before the *)
(* first hour finds no room old enough and changes nothing.                *)
Cleanup ==
  /\ event' = Event("cleanup", Null, Undefined, Undefined, Undefined)
  /\ UNCHANGED clientVars
  /\ \E swept \in {cleanup(rooms, now)} :
        /\ rooms' = swept.rooms
        /\ rmLog' = swept.log
  /\ outbox' = <<>>
  /\ UNCHANGED <<conn, currentRoomId, sioRooms, now>>

(* Date.now() advances to t between events; no handler runs *)
Advance(t) ==
  /\ t > now
  /\ now' = t
  /\ outbox' = <<>>
  /\ rmLog' = <<>>
  /\ event' = Event("tick", Null, Undefined, Undefined, Undefined)
  /\ UNCHANGED clientVars
  /\ UNCHANGED <<rooms, conn, currentRoomId, sioRooms>>

Tick == \E t \in TimePoints : Advance(t)

Next ==
  \/ \E s \in Sockets : Connect(s)
  \/ \E s \in Sockets : \E roomId \in RoomIdInputs(s) :
       \E userId \in UserIdInputs(s), name \in NameInputs(s) :
         JoinRoom(s, roomId, userId, name)
  \/ \E s \in Sockets : \E roomId \in RoomIdInputs(s) : HostChanged(s, roomId)
  \/ \E s \in Sockets : LeaveRoom(s)
  \/ \E s \in Sockets : Disconnect(s)
  \/ Cleanup
  \/ Tick

Spec == Init /\ [][Next]_vars

(* The handlers of one instant with the relayed messages: rooms are joined *)
(* under their canonical spelling, relayed messages name them in any       *)
(* spelling.                                                               *)
RelayNext ==
  \/ \E s \in Sockets : Connect(s)
  \/ \E s \in Sockets : \E roomId \in RelayRoomIdInputs(s) :
       \E userId \in UserIdInputs(s), name \in NameInputs(s) :
         JoinRoom(s, roomId, userId, name)
  \/ \E s \in Sockets : \E roomId \in RelayRoomIdInputs(s) : HostChanged(s, roomId)
  \/ \E s \in Sockets : \E in \in OfferInputs(s) : Offer(s, in[1], in[2], in[3])
  \/ \E s \in Sockets : \E in \in AnswerInputs(s) : Answer(s, in[1], in[2], in[3])
  \/ \E s \in Sockets : \E in \in IceCandidateInputs(s) :
       IceCandidate(s, in[1], in[2], in[3])
  \/ \E s \in Sockets : LeaveRoom(s)
  \/ \E s \in Sockets : Disconnect(s)

RelaySpec == Init /\ [][RelayNext]_vars

(* The sweeper against joins and leaves of two connections, the clock      *)
(* sampled around each full hour                                           *)
SweepNext ==
  \/ \E s \in SweepSockets : Connect(s)
  \/ \E s \in SweepSockets : \E roomId \in RoomIdInputs(s) :
       \E userId \in UserIdInputs(s), name \in NameInputs(s) :
         JoinRoom(s, roomId, userId, name)
  \/ \E s \in SweepSockets : LeaveRoom(s)
  \/ \E s \in SweepSockets : Disconnect(s)
  \/ Cleanup
  \/ \E t \in SweepTimePoints : Advance(t)

SweepSpec == Init /\ [][SweepNext]_vars

----------------------------------------------------------------------------
----------------------------------------------------------------------------
(* The clients' side of the signalling.  Socket.IO delivers in order on    *)
(* each connection and the server handles one message at a time, so what   *)
(* a member emits is relayed in emission order: the relay is taken with    *)
(* the step that emits.  A socket joins in its connect handler, so the     *)
(* connected sockets are the members.                                      *)

MaxCandidates == 2

MaxToggles == 2

members == {session[i] : i \in DOMAIN session}

deliver(ib, msgs) == [c \in Peers |-> ib[c] \o SelectSeq(msgs, LAMBDA m : m.to = c)]

Emission(c, type, payload, targetSocketId) ==
  [type |-> type, from |-> c, payload |-> payload, targetSocketId |-> targetSocketId]

(* useSocket emitOffer, emitAnswer, emitIceCandidate *)
emit(c, type, payload, targetSocketId) ==
  IF c \in members THEN <<Emission(c, type, payload, targetSocketId)>> ELSE <<>>

(* The same functions called while the socket is not connected: nothing   *)
(* is emitted, and the functions return nothing                            *)
notEmitted(c, type, payload, targetSocketId) ==
  IF c \in members THEN <<>> ELSE <<Emission(c, type, payload, targetSocketId)>>

(* The offer, answer and ice-candidate handlers of the server for a well-  *)
(* formed payload and the clients' room id: to the target if one is named, *)
(* else to the room, never to the sender.  The body carries the fields the *)
(* clients read.                                                           *)
relay(e) ==
  LET body == IF e.type = "offer" THEN [offer |-> e.payload, fromSocketId |-> e.from]
              ELSE IF e.type = "answer" THEN [answer |-> e.payload, fromSocketId |-> e.from]
              ELSE [candidate |-> e.payload, fromSocketId |-> e.from]
  IN IF e.from \notin members \/ Falsy(e.payload) \/ Falsy(e.payload[2])
        \/ (e.type # "ice-candidate" /\ Falsy(e.payload[3]))
     THEN <<>>
     ELSE IF ~Falsy(e.targetSocketId)
     THEN emitTo(({e.targetSocketId} \cap members) \ {e.from}, e.type, body)
     ELSE emitTo(members \ {e.from}, e.type, body)

relayAll(es) == IF es = <<>> THEN <<>> ELSE relay(es[1])

(* Room.tsx: getTargetSocketId() || undefined *)
targetOrUndefined(target) == IF Falsy(target) THEN Undefined ELSE target

(* Room.tsx onOffer and onIceCandidate of the useWebRTC options *)
onOffer(c, offer, target) == emit(c, "offer", offer, targetOrUndefined(target))

onIceCandidate(c, candidate, target) ==
  emit(c, "ice-candidate", candidate, targetOrUndefined(target))

(* onAnswer emitting the answer to the room, with no target *)
onAnswerToTheRoom(c, answer, target) == emit(c, "answer", answer, Undefined)

(* Room.tsx onAnswer of the useWebRTC options *)
onAnswer(c, answer, target) ==
  IF ~Falsy(target) THEN emit(c, "answer", answer, target) ELSE <<>>

----------------------------------------------------------------------------
(* RTCPeerConnection.  An operation is settled when it reaches the head of *)
(* the connection's operations chain, against the state the connection has *)
(* then; it is rejected with InvalidStateError in the states the WebRTC    *)
(* recommendation names.                                                   *)

pcCreateOffer(p) ==
  [ok |-> p.signalingState \in {"stable", "have-local-offer"}, pc |-> p]

pcCreateAnswer(p) ==
  [ok |-> p.signalingState = "have-remote-offer", pc |-> p]

pcSetLocalDescription(p, description) ==
  IF description = DescOffer /\ p.signalingState \in {"stable", "have-local-offer"}
  THEN [ok |-> TRUE,
        pc |-> [p EXCEPT !.signalingState = "have-local-offer",
                         !.localDescription = description]]
  ELSE IF description = DescAnswer /\ p.signalingState = "have-remote-offer"
  THEN [ok |-> TRUE,
        pc |-> [p EXCEPT !.signalingState = "stable", !.localDescription = description]]
  ELSE [ok |-> FALSE, pc |-> p]

(* A remote offer met in have-local-offer rolls the local offer back *)
pcSetRemoteDescription(p, description) ==
  IF description = DescOffer
  THEN [ok |-> TRUE,
        pc |-> [p EXCEPT !.signalingState = "have-remote-offer",
                         !.remoteDescription = description]]
  ELSE IF description = DescAnswer /\ p.signalingState = "have-local-offer"
  THEN [ok |-> TRUE,
        pc |-> [p EXCEPT !.signalingState = "stable", !.remoteDescription = description]]
  ELSE [ok |-> FALSE, pc |-> p]

pcAddIceCandidate(p, candidate) ==
  IF p.remoteDescription # Null
  THEN [ok |-> TRUE, pc |-> [p EXCEPT !.candidates = Append(@, candidate)]]
  ELSE [ok |-> FALSE, pc |-> p]

(* The k-th candidate the connection of c gathers *)
candidateOf(c, k) == iceCandidateInit(<<"c", c[2], <<"1", "2", "3", "4", "5", "6">>[k]>>)

(* An async function suspended at an await: the operation it awaits, what  *)
(* the operation was called with, the function's targetSocketId and, in a  *)
(* for-of loop over the pending candidates, the candidates still to come   *)
Task(fn, op, arg, targetSocketId, queue) ==
  [fn |-> fn, op |-> op, arg |-> arg, targetSocketId |-> targetSocketId, queue |-> queue]

settle(p, task) ==
  IF task.op = "createOffer" THEN pcCreateOffer(p)
  ELSE IF task.op = "createAnswer" THEN pcCreateAnswer(p)
  ELSE IF task.op = "setLocalDescription" THEN pcSetLocalDescription(p, task.arg)
  ELSE IF task.op = "setRemoteDescription" THEN pcSetRemoteDescription(p, task.arg)
  ELSE pcAddIceCandidate(p, task.arg)

await(ops, c, task) == [ops EXCEPT ![c] = Append(Tail(@), task)]

call(ops, c, task) == [ops EXCEPT ![c] = Append(@, task)]

return(ops, c) == [ops EXCEPT ![c] = Tail(@)]

Resuming(c, fns) == operations[c] # <<>> /\ operations[c][1].fn \in fns

Receiving(c, type) == inbox[c] # <<>> /\ inbox[c][1].type = type
----------------------------------------------------------------------------
(* The server's join-room for the clients' room, and the client's handlers *)
(* of what it sends                                                        *)

Join(c) ==
  /\ transport[c] = "opening"
  /\ c \notin members
  /\ Len(session) < MaxUsers
  /\ did' = Did("join-room", c, Null)
  /\ session' = Append(session, c)
  /\ sent' = <<>>
  /\ LET otherUsers == session
         roomJoined ==
           socketEmit(c, "room-joined",
                      [isHost |-> session = <<>>,
                       otherUsers |-> [i \in DOMAIN otherUsers |->
                                         [userId |-> UserIdOf(otherUsers[i])]]])
         peerJoined ==
           IF Len(otherUsers) > 0
           THEN emitTo(members, "peer-joined", [userId |-> UserIdOf(c), socketId |-> c])
                \o emitTo({otherUsers[1]}, "create-offer",
                          [targetSocketId |-> c, targetUserId |-> UserIdOf(c)])
           ELSE <<>>
     IN inbox' = deliver(inbox, roomJoined \o peerJoined)
  /\ UNCHANGED <<pc, isCreatingOfferRef, targetSocketIdRef, pendingCandidatesRef,
                 operations, timeouts, storeHostId, screenShare>>
  /\ transport' = [transport EXCEPT ![c] = "open"]
  /\ roomHostId' = IF session = <<>> THEN c ELSE roomHostId
  /\ toasts' = <<>>
  /\ dropped' = <<>>
  /\ UNCHANGED serverVars

Timeout(callback, targetSocketId) ==
  [callback |-> callback, targetSocketId |-> targetSocketId]

(* useSocket: socket.on('room-joined').  The timeout calls onCreateOffer   *)
(* with the target ''.                                                     *)
onRoomJoined(c) ==
  /\ Receiving(c, "room-joined")
  /\ did' = Did("room-joined", c, Null)
  /\ inbox' = [inbox EXCEPT ![c] = Tail(@)]
  /\ storeHostId' = IF inbox[c][1].body.isHost
                    THEN [storeHostId EXCEPT ![c] = UserIdOf(c)]
                    ELSE storeHostId
  /\ timeouts' = IF Len(inbox[c][1].body.otherUsers) > 0
                 THEN [timeouts EXCEPT ![c] = Append(@, Timeout("onCreateOffer", <<>>))]
                 ELSE timeouts
  /\ sent' = <<>>
  /\ UNCHANGED <<session, pc, isCreatingOfferRef, targetSocketIdRef, pendingCandidatesRef,
                 operations, screenShare>>
  /\ toasts' = <<>>
  /\ dropped' = <<>>
  /\ UNCHANGED <<transport, roomHostId>>
  /\ UNCHANGED serverVars

(* Room.tsx onPeerJoined: createOffer(data.socketId) after a timeout *)
onPeerJoined(c) ==
  /\ Receiving(c, "peer-joined")
  /\ did' = Did("peer-joined", c, inbox[c][1].body.socketId)
  /\ inbox' = [inbox EXCEPT ![c] = Tail(@)]
  /\ timeouts' = [timeouts EXCEPT
                    ![c] = Append(@, Timeout("createOffer", inbox[c][1].body.socketId))]
  /\ sent' = <<>>
  /\ UNCHANGED <<session, pc, isCreatingOfferRef, targetSocketIdRef, pendingCandidatesRef,
                 operations, storeHostId, screenShare>>
  /\ toasts' = <<"Peer joined">>
  /\ dropped' = <<>>
  /\ UNCHANGED <<transport, roomHostId>>
  /\ UNCHANGED serverVars

(* Room.tsx onCreateOffer, called for a create-offer message or by the     *)
(* timeout of room-joined: createOffer(data.targetSocketId) after a        *)
(* timeout                                                                 *)
onCreateOffer(c) ==
  /\ \/ /\ Receiving(c, "create-offer")
        /\ did' = Did("create-offer", c, inbox[c][1].body.targetSocketId)
        /\ inbox' = [inbox EXCEPT ![c] = Tail(@)]
        /\ timeouts' = [timeouts EXCEPT
                          ![c] = Append(@, Timeout("createOffer",
                                                   inbox[c][1].body.targetSocketId))]
     \/ /\ timeouts[c] # <<>>
        /\ timeouts[c][1].callback = "onCreateOffer"
        /\ did' = Did("create-offer", c, timeouts[c][1].targetSocketId)
        /\ timeouts' = [timeouts EXCEPT
                          ![c] = Append(Tail(@), Timeout("createOffer",
                                                         timeouts[c][1].targetSocketId))]
        /\ UNCHANGED inbox
  /\ sent' = <<>>
  /\ UNCHANGED <<session, pc, isCreatingOfferRef, targetSocketIdRef, pendingCandidatesRef,
                 operations, storeHostId, screenShare>>
  /\ toasts' = <<>>
  /\ dropped' = <<>>
  /\ UNCHANGED <<transport, roomHostId>>
  /\ UNCHANGED serverVars

----------------------------------------------------------------------------
(* useWebRTC.  Each function is one action up to its first await and one   *)
(* action per await it resumes from.                                       *)

(* createOffer without the two checks that suppress it *)
createOfferUnguarded(c) ==
  /\ timeouts[c] # <<>>
  /\ timeouts[c][1].callback = "createOffer"
  /\ did' = Did("createOffer", c, timeouts[c][1].targetSocketId)
  /\ timeouts' = [timeouts EXCEPT ![c] = Tail(@)]
  /\ isCreatingOfferRef' = [isCreatingOfferRef EXCEPT ![c] = TRUE]
  /\ operations' = call(operations, c,
                        Task("createOffer", "createOffer", Null,
                             timeouts[c][1].targetSocketId, <<>>))
  /\ sent' = <<>>
  /\ UNCHANGED <<session, pc, targetSocketIdRef, pendingCandidatesRef, inbox, storeHostId,
                 screenShare>>
  /\ toasts' = <<>>
  /\ dropped' = <<>>
  /\ UNCHANGED <<transport, roomHostId>>
  /\ UNCHANGED serverVars

createOffer(c) ==
  /\ timeouts[c] # <<>>
  /\ timeouts[c][1].callback = "createOffer"
  /\ did' = Did("createOffer", c, timeouts[c][1].targetSocketId)
  /\ timeouts' = [timeouts EXCEPT ![c] = Tail(@)]
  /\ IF \/ isCreatingOfferRef[c]
        \/ pc[c].signalingState \in {"have-local-offer", "have-remote-offer"}
     THEN UNCHANGED <<isCreatingOfferRef, operations>>
     ELSE /\ isCreatingOfferRef' = [isCreatingOfferRef EXCEPT ![c] = TRUE]
          /\ operations' = call(operations, c,
                                Task("createOffer", "createOffer", Null,
                                     timeouts[c][1].targetSocketId, <<>>))
  /\ sent' = <<>>
  /\ UNCHANGED <<session, pc, targetSocketIdRef, pendingCandidatesRef, inbox, storeHostId,
                 screenShare>>
  /\ toasts' = <<>>
  /\ dropped' = <<>>
  /\ UNCHANGED <<transport, roomHostId>>
  /\ UNCHANGED serverVars

createOfferResumes(c) ==
  /\ Resuming(c, {"createOffer"})
  /\ LET task == operations[c][1]
         result == settle(pc[c], task)
         done == result.ok /\ task.op = "setLocalDescription"
         target == IF done /\ ~Falsy(task.targetSocketId)
                   THEN task.targetSocketId ELSE targetSocketIdRef[c]
     IN /\ did' = Did("await", c, task)
        /\ pc' = [pc EXCEPT ![c] = result.pc]
        /\ operations' =
             IF result.ok /\ task.op = "createOffer"
             THEN await(operations, c,
                        Task("createOffer", "setLocalDescription", DescOffer,
                             task.targetSocketId, <<>>))
             ELSE return(operations, c)
        /\ isCreatingOfferRef' =
             [isCreatingOfferRef EXCEPT ![c] = result.ok /\ task.op = "createOffer"]
        /\ targetSocketIdRef' = [targetSocketIdRef EXCEPT ![c] = target]
        /\ sent' = IF done THEN onOffer(c, DescOffer, target) ELSE <<>>
        /\ dropped' = IF done
                      THEN notEmitted(c, "offer", DescOffer, targetOrUndefined(target))
                      ELSE <<>>
        /\ inbox' = deliver(inbox, relayAll(sent'))
  /\ UNCHANGED <<session, pendingCandidatesRef, timeouts, storeHostId, screenShare>>
  /\ toasts' = <<>>
  /\ UNCHANGED <<transport, roomHostId>>
  /\ UNCHANGED serverVars

(* addScreenShareTrack called without the check of the store's hostId *)
addScreenShareTrackByAnyone(c) ==
  /\ screenShare[c] < MaxToggles
  /\ screenShare[c] % 2 = 0
  /\ \A i \in DOMAIN operations[c] :
       operations[c][i].fn \notin {"addScreenShareTrack", "removeScreenShareTrack"}
  /\ did' = Did("addScreenShareTrack", c, Null)
  /\ screenShare' = [screenShare EXCEPT ![c] = @ + 1]
  /\ operations' = call(operations, c,
                        Task("addScreenShareTrack", "createOffer", Null, Null, <<>>))
  /\ sent' = <<>>
  /\ UNCHANGED <<session, pc, isCreatingOfferRef, targetSocketIdRef, pendingCandidatesRef,
                 inbox, timeouts, storeHostId>>
  /\ toasts' = <<>>
  /\ dropped' = <<>>
  /\ UNCHANGED <<transport, roomHostId>>
  /\ UNCHANGED serverVars

(* Room.tsx handleToggleScreenShare calls addScreenShareTrack when the     *)
(* client is the host, does not share and no toggle is under way           *)
addScreenShareTrack(c) ==
  /\ storeHostId[c] = UserIdOf(c)
  /\ screenShare[c] < MaxToggles
  /\ screenShare[c] % 2 = 0
  /\ \A i \in DOMAIN operations[c] :
       operations[c][i].fn \notin {"addScreenShareTrack", "removeScreenShareTrack"}
  /\ did' = Did("addScreenShareTrack", c, Null)
  /\ screenShare' = [screenShare EXCEPT ![c] = @ + 1]
  /\ operations' = call(operations, c,
                        Task("addScreenShareTrack", "createOffer", Null, Null, <<>>))
  /\ sent' = <<>>
  /\ UNCHANGED <<session, pc, isCreatingOfferRef, targetSocketIdRef, pendingCandidatesRef,
                 inbox, timeouts, storeHostId>>
  /\ toasts' = <<>>
  /\ dropped' = <<>>
  /\ UNCHANGED <<transport, roomHostId>>
  /\ UNCHANGED serverVars

(* and removeScreenShareTrack when the client shares: the tracks that were *)
(* added are removed, removedAny is true                                   *)
removeScreenShareTrack(c) ==
  /\ storeHostId[c] = UserIdOf(c)
  /\ screenShare[c] < MaxToggles
  /\ screenShare[c] % 2 = 1
  /\ \A i \in DOMAIN operations[c] :
       operations[c][i].fn \notin {"addScreenShareTrack", "removeScreenShareTrack"}
  /\ did' = Did("removeScreenShareTrack", c, Null)
  /\ screenShare' = [screenShare EXCEPT ![c] = @ + 1]
  /\ operations' = call(operations, c,
                        Task("removeScreenShareTrack", "createOffer", Null, Null, <<>>))
  /\ sent' = <<>>
  /\ UNCHANGED <<session, pc, isCreatingOfferRef, targetSocketIdRef, pendingCandidatesRef,
                 inbox, timeouts, storeHostId>>
  /\ toasts' = <<>>
  /\ dropped' = <<>>
  /\ UNCHANGED <<transport, roomHostId>>
  /\ UNCHANGED serverVars

(* useSocket emitHostChanged *)
emitHostChanged(c) ==
  IF c \in members THEN <<Emission(c, "host-changed", Null, Undefined)>> ELSE <<>>

(* The host-changed handler of the server for a member of the clients'     *)
(* room: setHost, then io.to(room).emit to every member, the sender        *)
(* included                                                                *)
hostChanged(es) ==
  IF es = <<>> THEN <<>>
  ELSE emitTo(members, "host-changed",
              [hostId |-> UserIdOf(es[1].from), socketId |-> es[1].from])

(* Both functions after pc.createOffer() and pc.setLocalDescription(offer). *)
(* When the function returns, handleToggleScreenShare goes on: after       *)
(* removeScreenShareTrack stopScreenShare() sets the store's hostId to     *)
(* null, and on both ways emitHostChanged() is called and a toast shown.   *)
screenShareResumes(c) ==
  /\ Resuming(c, {"addScreenShareTrack", "removeScreenShareTrack"})
  /\ LET task == operations[c][1]
         result == settle(pc[c], task)
         returns == ~(result.ok /\ task.op = "createOffer")
         offer == IF result.ok /\ task.op = "setLocalDescription"
                  THEN onOffer(c, DescOffer, targetSocketIdRef[c]) ELSE <<>>
         request == IF returns THEN emitHostChanged(c) ELSE <<>>
     IN /\ did' = Did("await", c, task)
        /\ pc' = [pc EXCEPT ![c] = result.pc]
        /\ operations' =
             IF result.ok /\ task.op = "createOffer"
             THEN await(operations, c,
                        Task(task.fn, "setLocalDescription", DescOffer, Null, <<>>))
             ELSE return(operations, c)
        /\ sent' = offer \o request
        /\ dropped' = IF result.ok /\ task.op = "setLocalDescription"
                      THEN notEmitted(c, "offer", DescOffer,
                                      targetOrUndefined(targetSocketIdRef[c]))
                      ELSE <<>>
        /\ inbox' = deliver(deliver(inbox, relayAll(offer)), hostChanged(request))
        /\ roomHostId' = IF request # <<>> THEN c ELSE roomHostId
        /\ storeHostId' = IF returns /\ task.fn = "removeScreenShareTrack"
                          THEN [storeHostId EXCEPT ![c] = Null] ELSE storeHostId
        /\ toasts' = IF ~returns THEN <<>>
                     ELSE IF task.fn = "addScreenShareTrack"
                     THEN <<"Screen sharing started">>
                     ELSE <<"Screen sharing stopped">>
  /\ UNCHANGED <<session, isCreatingOfferRef, targetSocketIdRef, pendingCandidatesRef,
                 timeouts, screenShare, transport>>
  /\ UNCHANGED serverVars

(* Room.tsx handleToggleScreenShare returning at once: a toggle is under   *)
(* way, or the store's hostId is not the client's user id                  *)
handleToggleScreenShare(c) ==
  /\ \/ /\ \E i \in DOMAIN operations[c] :
             operations[c][i].fn \in {"addScreenShareTrack", "removeScreenShareTrack"}
        /\ toasts' = <<>>
     \/ /\ \A i \in DOMAIN operations[c] :
             operations[c][i].fn \notin {"addScreenShareTrack", "removeScreenShareTrack"}
        /\ storeHostId[c] # UserIdOf(c)
        /\ toasts' = <<"Only host can share screen">>
  /\ did' = Did("handleToggleScreenShare", c, Null)
  /\ sent' = <<>>
  /\ dropped' = <<>>
  /\ UNCHANGED <<session, pc, isCreatingOfferRef, targetSocketIdRef, pendingCandidatesRef,
                 operations, inbox, timeouts, storeHostId, screenShare, transport,
                 roomHostId>>
  /\ UNCHANGED serverVars

(* createAnswer going on to set the offer whatever the signaling state *)
createAnswerInAnyState(c) ==
  /\ Receiving(c, "offer")
  /\ LET offer == inbox[c][1].body.offer
         targetSocketId == inbox[c][1].body.fromSocketId
     IN /\ did' = Did("createAnswer", c, targetSocketId)
        /\ operations' =
             IF Falsy(offer) \/ Falsy(offer[2]) \/ Falsy(offer[3])
             THEN operations
             ELSE call(operations, c,
                       Task("createAnswer", "setRemoteDescription", offer,
                            targetSocketId, <<>>))
  /\ inbox' = [inbox EXCEPT ![c] = Tail(@)]
  /\ sent' = <<>>
  /\ UNCHANGED <<session, pc, isCreatingOfferRef, targetSocketIdRef, pendingCandidatesRef,
                 timeouts, storeHostId, screenShare>>
  /\ toasts' = <<>>
  /\ dropped' = <<>>
  /\ UNCHANGED <<transport, roomHostId>>
  /\ UNCHANGED serverVars

(* Room.tsx onOffer: createAnswer(data.offer, data.fromSocketId) *)
createAnswer(c) ==
  /\ Receiving(c, "offer")
  /\ LET offer == inbox[c][1].body.offer
         targetSocketId == inbox[c][1].body.fromSocketId
     IN /\ did' = Did("createAnswer", c, targetSocketId)
        /\ operations' =
             IF Falsy(offer) \/ Falsy(offer[2]) \/ Falsy(offer[3])
             THEN operations
             ELSE IF pc[c].signalingState \notin {"have-remote-offer", "stable"}
             THEN operations
             ELSE call(operations, c,
                       Task("createAnswer", "setRemoteDescription", offer,
                            targetSocketId, <<>>))
  /\ inbox' = [inbox EXCEPT ![c] = Tail(@)]
  /\ sent' = <<>>
  /\ UNCHANGED <<session, pc, isCreatingOfferRef, targetSocketIdRef, pendingCandidatesRef,
                 timeouts, storeHostId, screenShare>>
  /\ toasts' = <<>>
  /\ dropped' = <<>>
  /\ UNCHANGED <<transport, roomHostId>>
  /\ UNCHANGED serverVars

(* The for-of loop over pendingCandidatesRef.current of createAnswer and   *)
(* handleAnswer: entered when the description is set, left when the last   *)
(* candidate has settled.  Nothing is pushed to the array while a loop     *)
(* runs, since the remote description is set by then.                      *)
Looping(task, result) ==
  \/ task.op = "addIceCandidate"
  \/ /\ result.ok
     /\ \/ task.fn = "createAnswer" /\ task.op = "setLocalDescription"
        \/ task.fn = "handleAnswer" /\ task.op = "setRemoteDescription"

ToCome(c, task) ==
  IF task.op = "addIceCandidate" THEN task.queue ELSE pendingCandidatesRef[c]

createAnswerResumes(c) ==
  /\ Resuming(c, {"createAnswer"})
  /\ LET task == operations[c][1]
         result == settle(pc[c], task)
         toCome == ToCome(c, task)
         done == Looping(task, result) /\ toCome = <<>>
         target == IF result.ok /\ task.op = "setLocalDescription"
                   THEN task.targetSocketId ELSE targetSocketIdRef[c]
     IN /\ did' = Did("await", c, task)
        /\ pc' = [pc EXCEPT ![c] = result.pc]
        /\ operations' =
             IF Looping(task, result)
             THEN IF toCome = <<>>
                  THEN return(operations, c)
                  ELSE await(operations, c,
                             Task("createAnswer", "addIceCandidate", toCome[1],
                                  task.targetSocketId, Tail(toCome)))
             ELSE IF result.ok /\ task.op = "setRemoteDescription"
             THEN await(operations, c,
                        Task("createAnswer", "createAnswer", Null,
                             task.targetSocketId, <<>>))
             ELSE IF result.ok /\ task.op = "createAnswer"
             THEN await(operations, c,
                        Task("createAnswer", "setLocalDescription", DescAnswer,
                             task.targetSocketId, <<>>))
             ELSE return(operations, c)
        /\ targetSocketIdRef' = [targetSocketIdRef EXCEPT ![c] = target]
        /\ pendingCandidatesRef' =
             IF done THEN [pendingCandidatesRef EXCEPT ![c] = <<>>]
             ELSE pendingCandidatesRef
        /\ sent' = IF done THEN onAnswer(c, DescAnswer, target) ELSE <<>>
        /\ dropped' = IF done /\ ~Falsy(target)
                      THEN notEmitted(c, "answer", DescAnswer, target) ELSE <<>>
        /\ inbox' = deliver(inbox, relayAll(sent'))
  /\ UNCHANGED <<session, isCreatingOfferRef, timeouts, storeHostId, screenShare>>
  /\ toasts' = <<>>
  /\ UNCHANGED <<transport, roomHostId>>
  /\ UNCHANGED serverVars

(* Room.tsx onAnswer of the socket: handleAnswer(data.answer) *)
handleAnswer(c) ==
  /\ Receiving(c, "answer")
  /\ LET answer == inbox[c][1].body.answer
     IN /\ did' = Did("handleAnswer", c, answer)
        /\ operations' =
             IF Falsy(answer) \/ Falsy(answer[2]) \/ Falsy(answer[3])
             THEN operations
             ELSE IF pc[c].signalingState \notin {"have-local-offer", "stable"}
             THEN operations
             ELSE call(operations, c,
                       Task("handleAnswer", "setRemoteDescription", answer, Null, <<>>))
  /\ inbox' = [inbox EXCEPT ![c] = Tail(@)]
  /\ sent' = <<>>
  /\ UNCHANGED <<session, pc, isCreatingOfferRef, targetSocketIdRef, pendingCandidatesRef,
                 timeouts, storeHostId, screenShare>>
  /\ toasts' = <<>>
  /\ dropped' = <<>>
  /\ UNCHANGED <<transport, roomHostId>>
  /\ UNCHANGED serverVars

(* handleAnswer discarding the pending candidates once the answer is set,  *)
(* without applying them                                                   *)
handleAnswerWithoutDrain(c) ==
  /\ Resuming(c, {"handleAnswer"})
  /\ LET task == operations[c][1]
         result == settle(pc[c], task)
     IN /\ did' = Did("await", c, task)
        /\ pc' = [pc EXCEPT ![c] = result.pc]
        /\ operations' = return(operations, c)
        /\ pendingCandidatesRef' =
             IF Looping(task, result)
             THEN [pendingCandidatesRef EXCEPT ![c] = <<>>]
             ELSE pendingCandidatesRef
  /\ sent' = <<>>
  /\ UNCHANGED <<session, isCreatingOfferRef, targetSocketIdRef, inbox, timeouts,
                 storeHostId, screenShare>>
  /\ toasts' = <<>>
  /\ dropped' = <<>>
  /\ UNCHANGED <<transport, roomHostId>>
  /\ UNCHANGED serverVars

handleAnswerResumes(c) ==
  /\ Resuming(c, {"handleAnswer"})
  /\ LET task == operations[c][1]
         result == settle(pc[c], task)
         toCome == ToCome(c, task)
     IN /\ did' = Did("await", c, task)
        /\ pc' = [pc EXCEPT ![c] = result.pc]
        /\ operations' =
             IF Looping(task, result) /\ toCome # <<>>
             THEN await(operations, c,
                        Task("handleAnswer", "addIceCandidate", toCome[1], Null,
                             Tail(toCome)))
             ELSE return(operations, c)
        /\ pendingCandidatesRef' =
             IF Looping(task, result) /\ toCome = <<>>
             THEN [pendingCandidatesRef EXCEPT ![c] = <<>>]
             ELSE pendingCandidatesRef
  /\ sent' = <<>>
  /\ UNCHANGED <<session, isCreatingOfferRef, targetSocketIdRef, inbox, timeouts,
                 storeHostId, screenShare>>
  /\ toasts' = <<>>
  /\ dropped' = <<>>
  /\ UNCHANGED <<transport, roomHostId>>
  /\ UNCHANGED serverVars

(* addIceCandidate handing every candidate to the connection, whether or   *)
(* not a remote description is set                                         *)
addIceCandidateWithoutQueue(c) ==
  /\ Receiving(c, "ice-candidate")
  /\ LET candidate == inbox[c][1].body.candidate
     IN /\ did' = Did("addIceCandidate", c, candidate)
        /\ operations' =
             IF Falsy(candidate) \/ Falsy(candidate[2])
             THEN operations
             ELSE call(operations, c,
                       Task("addIceCandidate", "addIceCandidate", candidate, Null, <<>>))
  /\ inbox' = [inbox EXCEPT ![c] = Tail(@)]
  /\ sent' = <<>>
  /\ UNCHANGED <<session, pc, isCreatingOfferRef, targetSocketIdRef, pendingCandidatesRef,
                 timeouts, storeHostId, screenShare>>
  /\ toasts' = <<>>
  /\ dropped' = <<>>
  /\ UNCHANGED <<transport, roomHostId>>
  /\ UNCHANGED serverVars

(* Room.tsx onIceCandidate of the socket: addIceCandidate(data.candidate) *)
addIceCandidate(c) ==
  /\ Receiving(c, "ice-candidate")
  /\ LET candidate == inbox[c][1].body.candidate
     IN /\ did' = Did("addIceCandidate", c, candidate)
        /\ IF Falsy(candidate) \/ Falsy(candidate[2])
           THEN UNCHANGED <<operations, pendingCandidatesRef>>
           ELSE IF pc[c].remoteDescription # Null
           THEN /\ operations' = call(operations, c,
                                      Task("addIceCandidate", "addIceCandidate",
                                           candidate, Null, <<>>))
                /\ UNCHANGED pendingCandidatesRef
           ELSE /\ pendingCandidatesRef' =
                     [pendingCandidatesRef EXCEPT ![c] = Append(@, candidate)]
                /\ UNCHANGED operations
  /\ inbox' = [inbox EXCEPT ![c] = Tail(@)]
  /\ sent' = <<>>
  /\ UNCHANGED <<session, pc, isCreatingOfferRef, targetSocketIdRef, timeouts, storeHostId,
                 screenShare>>
  /\ toasts' = <<>>
  /\ dropped' = <<>>
  /\ UNCHANGED <<transport, roomHostId>>
  /\ UNCHANGED serverVars

(* A candidate the connection rejects is queued for a retry *)
addIceCandidateResumes(c) ==
  /\ Resuming(c, {"addIceCandidate"})
  /\ LET task == operations[c][1]
         result == settle(pc[c], task)
     IN /\ did' = Did("await", c, task)
        /\ pc' = [pc EXCEPT ![c] = result.pc]
        /\ pendingCandidatesRef' =
             IF result.ok THEN pendingCandidatesRef
             ELSE [pendingCandidatesRef EXCEPT ![c] = Append(@, task.arg)]
  /\ operations' = return(operations, c)
  /\ sent' = <<>>
  /\ UNCHANGED <<session, isCreatingOfferRef, targetSocketIdRef, inbox, timeouts,
                 storeHostId, screenShare>>
  /\ toasts' = <<>>
  /\ dropped' = <<>>
  /\ UNCHANGED <<transport, roomHostId>>
  /\ UNCHANGED serverVars

(* pc.onicecandidate: the connection gathers candidates once it has a      *)
(* local description                                                       *)
onicecandidate(c) ==
  /\ pc[c].localDescription # Null
  /\ pc[c].gathered < MaxCandidates
  /\ did' = Did("icecandidate", c, candidateOf(c, pc[c].gathered + 1))
  /\ pc' = [pc EXCEPT ![c].gathered = @ + 1]
  /\ sent' = onIceCandidate(c, candidateOf(c, pc[c].gathered + 1), targetSocketIdRef[c])
  /\ dropped' = notEmitted(c, "ice-candidate", candidateOf(c, pc[c].gathered + 1),
                           targetOrUndefined(targetSocketIdRef[c]))
  /\ inbox' = deliver(inbox, relayAll(sent'))
  /\ UNCHANGED <<session, isCreatingOfferRef, targetSocketIdRef, pendingCandidatesRef,
                 operations, timeouts, storeHostId, screenShare>>
  /\ toasts' = <<>>
  /\ UNCHANGED <<transport, roomHostId>>
  /\ UNCHANGED serverVars

(* The socket of c loses its connection, or its page is closed: the        *)
(* server's disconnect handler runs handleLeaveRoom for the clients' room. *)
(* removeUser makes the first member left the host when the host leaves    *)
(* and deletes the room with its last member.  What the server had sent to *)
(* c and c has not received is lost; the functions of c that await go on.  *)
(* The socket does not come back: a reconnected socket has another id.     *)
Disconnected(c) ==
  /\ c \in members
  /\ did' = Did("disconnect", c, Null)
  /\ LET remaining == SelectSeq(session, LAMBDA m : m # c)
         wasHost == roomHostId = c
         peerLeft ==
           emitTo(members \ {c}, "peer-left", [userId |-> UserIdOf(c), socketId |-> c])
         toTheNewHost ==
           IF wasHost /\ remaining # <<>>
           THEN emitTo(members \ {c}, "host-changed",
                       [hostId |-> UserIdOf(remaining[1]), socketId |-> remaining[1]])
           ELSE <<>>
     IN /\ session' = remaining
        /\ roomHostId' = IF remaining = <<>> THEN Null
                         ELSE IF wasHost THEN remaining[1] ELSE roomHostId
        /\ inbox' = deliver([inbox EXCEPT ![c] = <<>>], peerLeft \o toTheNewHost)
  /\ transport' = [transport EXCEPT ![c] = "closed"]
  /\ sent' = <<>>
  /\ toasts' = <<>>
  /\ dropped' = <<>>
  /\ UNCHANGED <<pc, isCreatingOfferRef, targetSocketIdRef, pendingCandidatesRef,
                 operations, timeouts, storeHostId, screenShare>>
  /\ UNCHANGED serverVars

(* useSocket: socket.on('connect_error'), run for each attempt to          *)
(* reconnect that fails; Room.tsx onError shows the toast                  *)
onConnectError(c) ==
  /\ transport[c] = "closed"
  /\ did' = Did("connect_error", c, Null)
  /\ toasts' = <<"Connection error">>
  /\ sent' = <<>>
  /\ dropped' = <<>>
  /\ UNCHANGED <<session, pc, isCreatingOfferRef, targetSocketIdRef, pendingCandidatesRef,
                 operations, inbox, timeouts, storeHostId, screenShare, transport,
                 roomHostId>>
  /\ UNCHANGED serverVars

(* useSocket: socket.on('peer-left'): Room.tsx onPeerLeft, then            *)
(* setRemoteUser(null) and setHostId(null).  The peer connection is kept.  *)
onPeerLeft(c) ==
  /\ Receiving(c, "peer-left")
  /\ did' = Did("peer-left", c, inbox[c][1].body.socketId)
  /\ inbox' = [inbox EXCEPT ![c] = Tail(@)]
  /\ storeHostId' = [storeHostId EXCEPT ![c] = Null]
  /\ toasts' = <<"Peer left">>
  /\ sent' = <<>>
  /\ dropped' = <<>>
  /\ UNCHANGED <<session, pc, isCreatingOfferRef, targetSocketIdRef, pendingCandidatesRef,
                 operations, timeouts, screenShare, transport, roomHostId>>
  /\ UNCHANGED serverVars

(* useSocket: socket.on('host-changed'): setHostId(data.hostId), then      *)
(* Room.tsx onHostChanged                                                  *)
onHostChanged(c) ==
  /\ Receiving(c, "host-changed")
  /\ did' = Did("host-changed", c, inbox[c][1].body.socketId)
  /\ inbox' = [inbox EXCEPT ![c] = Tail(@)]
  /\ storeHostId' = [storeHostId EXCEPT ![c] = inbox[c][1].body.hostId]
  /\ toasts' = <<"Host changed">>
  /\ sent' = <<>>
  /\ dropped' = <<>>
  /\ UNCHANGED <<session, pc, isCreatingOfferRef, targetSocketIdRef, pendingCandidatesRef,
                 operations, timeouts, screenShare, transport, roomHostId>>
  /\ UNCHANGED serverVars

(* Two clients joining the room and exchanging offer and answer *)
HandshakeNext ==
  \/ \E c \in Peers : Join(c)
  \/ \E c \in Peers : onRoomJoined(c)
  \/ \E c \in Peers : onPeerJoined(c)
  \/ \E c \in Peers : onCreateOffer(c)
  \/ \E c \in Peers : createOffer(c)
  \/ \E c \in Peers : createOfferResumes(c)
  \/ \E c \in Peers : createAnswer(c)
  \/ \E c \in Peers : createAnswerResumes(c)
  \/ \E c \in Peers : handleAnswer(c)
  \/ \E c \in Peers : handleAnswerResumes(c)

HandshakeSpec == Init /\ [][HandshakeNext]_vars

(* The same with the host starting and stopping its screen share *)
ScreenShareNext ==
  \/ \E c \in Peers : Join(c)
  \/ \E c \in Peers : onRoomJoined(c)
  \/ \E c \in Peers : onPeerJoined(c)
  \/ \E c \in Peers : onCreateOffer(c)
  \/ \E c \in Peers : createOffer(c)
  \/ \E c \in Peers : createOfferResumes(c)
  \/ \E c \in Peers : addScreenShareTrack(c)
  \/ \E c \in Peers : removeScreenShareTrack(c)
  \/ \E c \in Peers : screenShareResumes(c)
  \/ \E c \in Peers : handleToggleScreenShare(c)
  \/ \E c \in Peers : onHostChanged(c)
  \/ \E c \in Peers : createAnswer(c)
  \/ \E c \in Peers : createAnswerResumes(c)
  \/ \E c \in Peers : handleAnswer(c)
  \/ \E c \in Peers : handleAnswerResumes(c)

ScreenShareSpec == Init /\ [][ScreenShareNext]_vars

(* The handshake with the candidates the two connections gather *)
CandidateNext ==
  \/ \E c \in Peers : Join(c)
  \/ \E c \in Peers : onRoomJoined(c)
  \/ \E c \in Peers : onPeerJoined(c)
  \/ \E c \in Peers : onCreateOffer(c)
  \/ \E c \in Peers : createOffer(c)
  \/ \E c \in Peers : createOfferResumes(c)
  \/ \E c \in Peers : createAnswer(c)
  \/ \E c \in Peers : createAnswerResumes(c)
  \/ \E c \in Peers : handleAnswer(c)
  \/ \E c \in Peers : handleAnswerResumes(c)
  \/ \E c \in Peers : addIceCandidate(c)
  \/ \E c \in Peers : addIceCandidateResumes(c)
  \/ \E c \in Peers : onicecandidate(c)

CandidateSpec == Init /\ [][CandidateNext]_vars

(* The exchange with a long queue of candidates: the connection of the     *)
(* member that joined second gathers up to MaxQueued candidates, that of   *)
(* the first member none                                                   *)
MaxQueued == 4

onicecandidateOfTheJoiner(c) ==
  /\ Len(session) = 2
  /\ c = session[2]
  /\ pc[c].localDescription # Null
  /\ pc[c].gathered < MaxQueued
  /\ did' = Did("icecandidate", c, candidateOf(c, pc[c].gathered + 1))
  /\ pc' = [pc EXCEPT ![c].gathered = @ + 1]
  /\ sent' = onIceCandidate(c, candidateOf(c, pc[c].gathered + 1), targetSocketIdRef[c])
  /\ dropped' = notEmitted(c, "ice-candidate", candidateOf(c, pc[c].gathered + 1),
                           targetOrUndefined(targetSocketIdRef[c]))
  /\ inbox' = deliver(inbox, relayAll(sent'))
  /\ UNCHANGED <<session, isCreatingOfferRef, targetSocketIdRef, pendingCandidatesRef,
                 operations, timeouts, storeHostId, screenShare>>
  /\ toasts' = <<>>
  /\ UNCHANGED <<transport, roomHostId>>
  /\ UNCHANGED serverVars

DrainNext ==
  \/ \E c \in Peers : Join(c)
  \/ \E c \in Peers : onRoomJoined(c)
  \/ \E c \in Peers : onPeerJoined(c)
  \/ \E c \in Peers : onCreateOffer(c)
  \/ \E c \in Peers : createOffer(c)
  \/ \E c \in Peers : createOfferResumes(c)
  \/ \E c \in Peers : createAnswer(c)
  \/ \E c \in Peers : createAnswerResumes(c)
  \/ \E c \in Peers : handleAnswer(c)
  \/ \E c \in Peers : handleAnswerResumes(c)
  \/ \E c \in Peers : addIceCandidate(c)
  \/ \E c \in Peers : addIceCandidateResumes(c)
  \/ \E c \in Peers : onicecandidateOfTheJoiner(c)

DrainSpec == Init /\ [][DrainNext]_vars

(* Two clients joining the room and exchanging offer and answer, either of *)
(* them leaving at any time                                                *)
LeaveNext ==
  \/ \E c \in Peers : Join(c)
  \/ \E c \in Peers : onRoomJoined(c)
  \/ \E c \in Peers : onPeerJoined(c)
  \/ \E c \in Peers : onCreateOffer(c)
  \/ \E c \in Peers : createOffer(c)
  \/ \E c \in Peers : createOfferResumes(c)
  \/ \E c \in Peers : createAnswer(c)
  \/ \E c \in Peers : createAnswerResumes(c)
  \/ \E c \in Peers : handleAnswer(c)
  \/ \E c \in Peers : handleAnswerResumes(c)
  \/ \E c \in Peers : Disconnected(c)
  \/ \E c \in Peers : onConnectError(c)
  \/ \E c \in Peers : onPeerLeft(c)
  \/ \E c \in Peers : onHostChanged(c)

LeaveSpec == Init /\ [][LeaveNext]_vars

(* Vocabulary of the properties *)

memberIds(rs, roomId) ==
  IF has(rs, roomId) THEN {rs[roomId].users[i].socketId : i \in DOMAIN rs[roomId].users}
  ELSE {}

Sent(out, to, type) == {i \in DOMAIN out : out[i].to = to /\ out[i].type = type}

SentError(out, to, text) ==
  \E i \in Sent(out, to, "error") : out[i].body.message = text

Logged(lg, tag, args) == \E i \in DOMAIN lg : lg[i].tag = tag /\ lg[i].args = args

(* The step is the handling of a join-room whose ids pass validation *)
ValidJoinStep ==
  /\ event'.op = "join-room"
  /\ validateRoomId(event'.roomId)
  /\ validateUserId(event'.userId)

(* The model names a later connection like an earlier, closed one: sound    *)
(* because nothing of a closed connection stays behind.                    *)
ClosedConnectionsLeaveNothing ==
  \A s \in Sockets :
    conn[s] = "closed" =>
      /\ sioRooms[s] = {}
      /\ currentRoomId[s] = Null
      /\ \A r \in DOMAIN rooms : s \notin memberIds(rooms, r)

(* Socket.IO room membership and registry membership agree *)
SocketRoomsMatchRegistry ==
  \A s \in Sockets :
    sioRooms[s] = {r \in DOMAIN rooms : s \in memberIds(rooms, r)}

----------------------------------------------------------------------------
(* C1: after any sequence of join-room, leave-room, disconnect,            *)
(* host-changed and cleanup events, every session in the registry has at   *)
(* most 2 members.                                                         *)
C1_AtMostTwoMembers == \A r \in DOMAIN rooms : Len(rooms[r].users) <= 2

(* A full session that has just turned a third connection away *)
C1_Witness ==
  \E r \in DOMAIN rooms, s \in Sockets :
    /\ event.op = "join-room"
    /\ event.sid = s
    /\ normalize(event.roomId) = r
    /\ Len(rooms[r].users) = 2
    /\ s \notin memberIds(rooms, r)
    /\ SentError(outbox, s, "Room is full")

(* C2: every session with a member has a hostId that is the connection id  *)
(* of one of its current members, and every session without members has    *)
(* hostId = none.                                                          *)
C2_HostIsMemberOrNone ==
  \A r \in DOMAIN rooms :
    IF Len(rooms[r].users) > 0
    THEN rooms[r].hostId \in memberIds(rooms, r)
    ELSE rooms[r].hostId = Null

(* A session whose host is its second member, beside an empty session *)
C2_Witness ==
  /\ \E r \in DOMAIN rooms :
       /\ Len(rooms[r].users) = 2
       /\ rooms[r].hostId = rooms[r].users[2].socketId
  /\ \E e \in DOMAIN rooms : Len(rooms[e].users) = 0

(* C3: room ids are trimmed and case-folded before every registry lookup   *)
(* of join-room: a valid join-room under any spelling of a room id joins   *)
(* the session of the canonical id whenever that session has room for the  *)
(* requester, so that two requests that differ only in letter case or      *)
(* surrounding whitespace both succeed and share a session.                *)
C3_AnySpellingJoinsTheSession ==
  [][LET s == event'.sid
          r == normalize(event'.roomId)
      IN ( /\ ValidJoinStep
           /\ s \notin memberIds(rooms, r)
           /\ Cardinality(memberIds(rooms, r)) < 2 )
         => s \in memberIds(rooms', r)]_vars

(* C4: a join-room with a valid user id and any valid room id for which no *)
(* session exists creates the session: the joiner is its only member and   *)
(* its host and receives room-joined with isHost = true and no other       *)
(* members.                                                                *)
C4_JoinOfUnknownRoomCreatesIt ==
  [][LET s == event'.sid
          r == normalize(event'.roomId)
      IN ( ValidJoinStep /\ ~has(rooms, r) )
         => /\ has(rooms', r)
            /\ memberIds(rooms', r) = {s}
            /\ rooms'[r].hostId = s
            /\ \E i \in Sent(outbox', s, "room-joined") :
                 /\ outbox'[i].body.isHost = TRUE
                 /\ outbox'[i].body.otherUsers = <<>>]_vars

(* C5: the registry never holds two sessions whose ids normalize to the    *)
(* same canonical id.                                                      *)
C5_OneSessionPerCanonicalId ==
  \A a \in DOMAIN rooms, b \in DOMAIN rooms : normalize(a) = normalize(b) => a = b

(* C6: a join-room from a third connection to a session with 2 members is  *)
(* answered with the error 'Room is full' to that connection; the session  *)
(* keeps its members and hostId, and none of its members is sent           *)
(* peer-joined or create-offer.                                            *)
C6_ThirdJoinIsTurnedAway ==
  [][LET s == event'.sid
          r == normalize(event'.roomId)
      IN ( /\ ValidJoinStep
           /\ s \notin memberIds(rooms, r)
           /\ Cardinality(memberIds(rooms, r)) = 2 )
         => /\ SentError(outbox', s, "Room is full")
            /\ Sent(outbox', s, "room-joined") = {}
            /\ has(rooms', r)
            /\ rooms'[r] = rooms[r]
            /\ \A m \in memberIds(rooms, r) :
                 /\ Sent(outbox', m, "peer-joined") = {}
                 /\ Sent(outbox', m, "create-offer") = {}]_vars

(* The third connection has just been told that the room is full, and the  *)
(* two members are where they were: first member host.                     *)
C6_Witness ==
  /\ event.op = "join-room"
  /\ event.sid = S3
  /\ normalize(event.roomId) = RoomABCD
  /\ SentError(outbox, S3, "Room is full")
  /\ has(rooms, RoomABCD)
  /\ memberIds(rooms, RoomABCD) = {S1, S2}
  /\ sioRooms[S3] = {}

(* C7: a join-room that is rejected (room not found, room full, already a  *)
(* member) leaves the registry as it was: the same sessions, each with the *)
(* same members and hostId.                                                *)
C7_RejectedJoinChangesNothing ==
  [][LET s == event'.sid
      IN ( /\ ValidJoinStep
           /\ \/ SentError(outbox', s, "Room not found")
              \/ SentError(outbox', s, "Room is full")
              \/ SentError(outbox', s, "User already in room") )
         => rooms' = rooms]_vars

(* C8: when the host of a two-member session stops being a member (leave,  *)
(* disconnect, or a join elsewhere), the session stays and the remaining   *)
(* member, first in insertion order, is its hostId.                        *)
C8_RemainingMemberSucceedsHost ==
  [][\A r \in DOMAIN rooms :
       ( /\ Len(rooms[r].users) = 2
         /\ rooms[r].hostId \notin memberIds(rooms', r) )
       => /\ has(rooms', r)
          /\ Len(rooms'[r].users) = 1
          /\ rooms'[r].users[1] \in {rooms[r].users[1], rooms[r].users[2]}
          /\ rooms'[r].hostId = rooms'[r].users[1].socketId]_vars

(* The host S2, second to join, has gone and S1 was told that it is host *)
C8_Witness ==
  /\ event.op \in {"leave-room", "disconnect"}
  /\ event.sid = S2
  /\ has(rooms, RoomABCD)
  /\ memberIds(rooms, RoomABCD) = {S1}
  /\ rooms[RoomABCD].hostId = S1
  /\ \E i \in Sent(outbox, S1, "peer-left") : outbox[i].body.socketId = S2
  /\ \E i \in Sent(outbox, S1, "host-changed") : outbox[i].body.socketId = S1

(* C9: when the last member of a session stops being a member, the session *)
(* leaves the registry in the same step; a session that enters the         *)
(* registry with a member is fresh: created now, that member alone and     *)
(* host.                                                                   *)
C9_EmptiedSessionIsRemoved ==
  [][/\ \A r \in DOMAIN rooms :
          ( /\ Len(rooms[r].users) = 1
            /\ rooms[r].users[1].socketId \notin memberIds(rooms', r) )
          => ~has(rooms', r)
     /\ \A r \in DOMAIN rooms' :
          ( ~has(rooms, r) /\ Len(rooms'[r].users) > 0 )
          => /\ Len(rooms'[r].users) = 1
             /\ rooms'[r].hostId = rooms'[r].users[1].socketId
             /\ rooms'[r].createdAt = now]_vars

(* S2 was a member of an earlier session ABCD, which went when its last    *)
(* member did; S1 has just created ABCD afresh and is alone and host.      *)
C9_Witness ==
  /\ currentRoomId[S2] = RoomABCD
  /\ event.op = "join-room"
  /\ event.sid = S1
  /\ Logged(rmLog, "Room created", <<RoomABCD>>)
  /\ has(rooms, RoomABCD)
  /\ memberIds(rooms, RoomABCD) = {S1}
  /\ rooms[RoomABCD].hostId = S1

(* C10: a host-changed request from any member of the stated session sets  *)
(* hostId to the requester's connection id, and every member, the          *)
(* requester included, is sent a host-changed that names the requester.    *)
C10_AnyMemberBecomesHost ==
  [][LET s == event'.sid
          r == normalize(event'.roomId)
      IN ( /\ event'.op = "host-changed"
           /\ validateRoomId(event'.roomId)
           /\ s \in memberIds(rooms, r) )
         => /\ rooms'[r].hostId = s
            /\ rooms'[r].users = rooms[r].users
            /\ \A m \in memberIds(rooms, r) :
                 \E i \in Sent(outbox', m, "host-changed") :
                   /\ outbox'[i].body.socketId = s
                   /\ outbox'[i].body.hostId = getUser(rooms, r, s).userId
                   /\ \A j \in Sent(outbox', m, "host-changed") : j = i]_vars

(* S2, second to join and not host before, asked and both members heard *)
C10_Witness ==
  /\ event.op = "host-changed"
  /\ event.sid = S2
  /\ has(rooms, RoomABCD)
  /\ memberIds(rooms, RoomABCD) = {S1, S2}
  /\ rooms[RoomABCD].users[2].socketId = S2
  /\ rooms[RoomABCD].hostId = S2
  /\ Logged(rmLog, "Host changed", <<RoomABCD, S1, S2>>)
  /\ \E i \in Sent(outbox, S1, "host-changed") : outbox[i].body.socketId = S2
  /\ \E i \in Sent(outbox, S2, "host-changed") : outbox[i].body.socketId = S2

----------------------------------------------------------------------------
(* Vocabulary of the relayed messages *)

(* { type, sdp } with both fields set *)
IsDescription(d) == ~Falsy(d) /\ typeofObject(d) /\ ~Falsy(d[2]) /\ ~Falsy(d[3])

(* The connections a message of the given type was delivered to *)
Recipients(out, type) == {out[i].to : i \in {j \in DOMAIN out : out[j].type = type}}

(* The step handles a host-changed, offer or answer that names a room and   *)
(* comes from a connection that is not a member of it                      *)
FromOutsideStep ==
  /\ event'.op \in {"host-changed", "offer", "answer"}
  /\ IsString(event'.roomId)
  /\ event'.sid \notin memberIds(rooms, normalize(event'.roomId))

(* The message of the step passes the checks that precede the membership   *)
(* check of its handler                                                    *)
PassesValidationStep ==
  /\ validateRoomId(event'.roomId)
  /\ event'.op \in {"offer", "answer"} => IsDescription(event'.payload)
  /\ event'.op = "answer" =>
       ~Falsy(event'.targetSocketId) /\ IsString(event'.targetSocketId)

(* C11: a host-changed, offer or answer from a connection that is not a     *)
(* member of the stated session (or that states a session that does not    *)
(* exist) is answered with one error to the sender and nothing else: no    *)
(* other connection is sent anything and no session changes its members or *)
(* host.  When the message is otherwise well formed the error is 'Not in   *)
(* room'.                                                                  *)
C11_OutsiderIsToldNotInRoom ==
  [][FromOutsideStep
       => /\ Len(outbox') = 1
          /\ outbox'[1].to = event'.sid
          /\ outbox'[1].type = "error"
          /\ PassesValidationStep => outbox' = ErrorMsg(event'.sid, "Not in room")
          /\ rooms' = rooms]_vars

(* S3, connected but in no room, answers into the full room ABCD *)
C11_Witness ==
  /\ event.op = "answer"
  /\ event.sid = S3
  /\ event.roomId = RoomABCD
  /\ event.targetSocketId = S1
  /\ IsDescription(event.payload)
  /\ memberIds(rooms, RoomABCD) = {S1, S2}
  /\ outbox = ErrorMsg(S3, "Not in room")

----------------------------------------------------------------------------
(* The step is a join-room that succeeded: the joiner was sent room-joined *)
JoinSucceededStep ==
  /\ ValidJoinStep
  /\ Sent(outbox', event'.sid, "room-joined") # {}

(* C12: when a join-room succeeds in a session that already has a member,  *)
(* that member is sent peer-joined for the joiner and, after it,           *)
(* create-offer with targetSocketId = the joiner's connection id; the      *)
(* joiner is sent neither.                                                 *)
C12_PeerJoinedThenCreateOffer ==
  [][LET s == event'.sid
         r == normalize(event'.roomId)
     IN JoinSucceededStep
        => /\ \A m \in memberIds(rooms, r) \ {s} :
                \E i \in Sent(outbox', m, "peer-joined") :
                \E j \in Sent(outbox', m, "create-offer") :
                  /\ i < j
                  /\ outbox'[i].body.socketId = s
                  /\ outbox'[j].body.targetSocketId = s
                  /\ Sent(outbox', m, "peer-joined") = {i}
                  /\ Sent(outbox', m, "create-offer") = {j}
           /\ Sent(outbox', s, "peer-joined") = {}
           /\ Sent(outbox', s, "create-offer") = {}]_vars

(* S2 joined S1 in ABCD: room-joined to S2, then peer-joined and            *)
(* create-offer to S1                                                      *)
C12_Witness ==
  /\ event.op = "join-room"
  /\ event.sid = S2
  /\ memberIds(rooms, RoomABCD) = {S1, S2}
  /\ Len(outbox) = 3
  /\ outbox[1].to = S2 /\ outbox[1].type = "room-joined"
  /\ outbox[2].to = S1 /\ outbox[2].type = "peer-joined"
  /\ outbox[2].body.socketId = S2
  /\ outbox[3].to = S1 /\ outbox[3].type = "create-offer"
  /\ outbox[3].body.targetSocketId = S2

----------------------------------------------------------------------------
(* The members of a room other than one socket, in the order they joined,  *)
(* as room-joined lists them                                               *)
OthersListed(rs, roomId, socketId) ==
  IF ~has(rs, roomId) THEN <<>>
  ELSE LET others == SelectSeq(rs[roomId].users, LAMBDA u : u.socketId # socketId)
       IN [i \in DOMAIN others |-> [userId |-> others[i].userId, name |-> others[i].name]]

(* C13: the room-joined of a successful join-room has isHost = true        *)
(* exactly when the session's hostId is the joiner's connection id, which  *)
(* is exactly when the joiner is the only member, and lists as other       *)
(* members exactly the members that were there before the join.            *)
C13_RoomJoinedTellsHostAndOthers ==
  [][LET s == event'.sid
         r == normalize(event'.roomId)
     IN JoinSucceededStep
        => \E i \in Sent(outbox', s, "room-joined") :
             /\ Sent(outbox', s, "room-joined") = {i}
             /\ outbox'[i].body.isHost = (rooms'[r].hostId = s)
             /\ outbox'[i].body.isHost = (memberIds(rooms', r) = {s})
             /\ outbox'[i].body.otherUsers = OthersListed(rooms, r, s)
             /\ outbox'[i].body.roomId = r]_vars

(* S1 joined ABCD where S2 was: not host, and S2 is listed by its trimmed  *)
(* user id and sanitized name                                              *)
C13_Witness ==
  /\ event.op = "join-room"
  /\ event.sid = S1
  /\ memberIds(rooms, RoomABCD) = {S1, S2}
  /\ \E i \in Sent(outbox, S1, "room-joined") :
       /\ outbox[i].body.isHost = FALSE
       /\ outbox[i].body.otherUsers =
            <<[userId |-> <<"b","o","b","b","y">>, name |-> <<"A","l">>]>>

----------------------------------------------------------------------------
(* The payload a relayed message carries *)
Carried(msg) ==
  IF msg.type = "offer" THEN msg.body.offer
  ELSE IF msg.type = "answer" THEN msg.body.answer
  ELSE msg.body.candidate

(* The payload of the step passes the format checks of its handler *)
PayloadAcceptedStep ==
  IF event'.op = "ice-candidate"
  THEN ~Falsy(event'.payload) /\ typeofObject(event'.payload) /\ ~Falsy(event'.payload[2])
  ELSE IsDescription(event'.payload)

(* The step handles an offer, answer or ice-candidate whose target is a    *)
(* connection id                                                           *)
TargetedRelayStep ==
  /\ event'.op \in {"offer", "answer", "ice-candidate"}
  /\ event'.targetSocketId \in Sockets

(* C14: an offer, answer or ice-candidate with an explicit target          *)
(* connection id is delivered to that connection only, at most once, with  *)
(* fromSocketId = the sender's connection id, and only if the sender is a  *)
(* member of the stated session; it is never delivered back to the sender. *)
C14_TargetedRelayReachesTheTargetOnly ==
  [][LET s == event'.sid
         t == event'.targetSocketId
         relayed == {i \in DOMAIN outbox' : outbox'[i].type = event'.op}
     IN TargetedRelayStep
        => /\ \A i \in relayed :
                /\ outbox'[i].to = t
                /\ outbox'[i].to # s
                /\ outbox'[i].body.fromSocketId = s
                /\ Carried(outbox'[i]) = event'.payload
                /\ relayed = {i}
                /\ validateRoomId(event'.roomId)
                /\ s \in memberIds(rooms, normalize(event'.roomId))
           /\ \A i \in DOMAIN outbox' \ relayed :
                outbox'[i].to = s /\ outbox'[i].type = "error"
           /\ ( /\ PayloadAcceptedStep
                /\ validateRoomId(event'.roomId)
                /\ s \in memberIds(rooms, normalize(event'.roomId))
                /\ t # s
                /\ conn[t] = "open" )
              => relayed # {}
           /\ rooms' = rooms]_vars

(* S2, member of ABCD, answered S1 naming the room as " ABCD " *)
C14_Witness ==
  /\ event.op = "answer"
  /\ event.sid = S2
  /\ event.roomId = RoomAbcdSpaced
  /\ event.targetSocketId = S1
  /\ S2 \in memberIds(rooms, RoomABCD)
  /\ Len(outbox) = 1
  /\ outbox[1].to = S1
  /\ outbox[1].type = "answer"
  /\ outbox[1].body.fromSocketId = S2
  /\ outbox[1].body.answer = DescAnswer

----------------------------------------------------------------------------
(* The step handles a well-formed offer or ice-candidate without a target  *)
(* from a member of the room it names                                      *)
BroadcastRelayStep ==
  /\ event'.op \in {"offer", "ice-candidate"}
  /\ Falsy(event'.targetSocketId)
  /\ PayloadAcceptedStep
  /\ validateRoomId(event'.roomId)
  /\ event'.sid \in memberIds(rooms, normalize(event'.roomId))

(* C15: an offer or ice-candidate sent without a target by a member of a   *)
(* session is delivered to every other member of that session (at most     *)
(* one) and to no one else; the sender does not receive its own message.   *)
C15_BroadcastReachesTheOtherMember ==
  [][LET s == event'.sid
         others == memberIds(rooms, normalize(event'.roomId)) \ {s}
     IN BroadcastRelayStep
        => /\ \A m \in others :
                \E i \in Sent(outbox', m, event'.op) :
                  /\ Sent(outbox', m, event'.op) = {i}
                  /\ outbox'[i].body.fromSocketId = s
                  /\ Carried(outbox'[i]) = event'.payload
           /\ \A i \in DOMAIN outbox' :
                outbox'[i].to \in others /\ outbox'[i].type = event'.op
           /\ Cardinality(others) <= 1
           /\ rooms' = rooms]_vars

(* S1 sent a candidate to the room ABCD and S2, the other member, got it *)
C15_Witness ==
  /\ event.op = "ice-candidate"
  /\ event.sid = S1
  /\ event.targetSocketId = Undefined
  /\ memberIds(rooms, RoomABCD) = {S1, S2}
  /\ conn[S3] = "open"
  /\ Len(outbox) = 1
  /\ outbox[1].to = S2
  /\ outbox[1].type = "ice-candidate"
  /\ outbox[1].body = [candidate |-> CandHost, fromSocketId |-> S1]

----------------------------------------------------------------------------
(* C16: when a member of a two-member session leaves or disconnects, the   *)
(* remaining member is sent exactly one peer-left naming the leaver; if    *)
(* the leaver was host, the remaining member is also sent, after the       *)
(* peer-left, a host-changed naming itself as the new host; if the leaver  *)
(* was not host, no host-changed is sent.                                  *)
C16_RemainingMemberIsTold ==
  [][\A r \in DOMAIN rooms : \A s \in memberIds(rooms, r) :
       LET leaver == getUser(rooms, r, s)
       IN ( /\ Len(rooms[r].users) = 2
            /\ \/ event'.op \in {"leave-room", "disconnect"} /\ event'.sid = s
               \/ s \notin memberIds(rooms', r) )
          => /\ s \notin memberIds(rooms', r)
             /\ \A m \in memberIds(rooms, r) \ {s} :
                  /\ \E i \in Sent(outbox', m, "peer-left") :
                       /\ Sent(outbox', m, "peer-left") = {i}
                       /\ outbox'[i].body = [userId |-> leaver.userId, socketId |-> s]
                       /\ IF rooms[r].hostId = s
                          THEN \E j \in Sent(outbox', m, "host-changed") :
                                 /\ Sent(outbox', m, "host-changed") = {j}
                                 /\ i < j
                                 /\ outbox'[j].body.socketId = m
                                 /\ outbox'[j].body.hostId = getUser(rooms, r, m).userId
                          ELSE \A j \in DOMAIN outbox' : outbox'[j].type # "host-changed"
                  /\ Sent(outbox', s, "peer-left") = {}]_vars

(* S1, not the host, left ABCD; S2, the host, was sent one peer-left and   *)
(* nothing else                                                            *)
C16_Witness ==
  /\ event.op = "leave-room"
  /\ event.sid = S1
  /\ memberIds(rooms, RoomABCD) = {S2}
  /\ rooms[RoomABCD].hostId = S2
  /\ outbox = <<Msg(S2, "peer-left", [userId |-> UserAnn, socketId |-> S1])>>

----------------------------------------------------------------------------
(* The rooms a socket is a member of *)
roomsOf(rs, s) == {r \in DOMAIN rs : s \in memberIds(rs, r)}

(* The step handles a leave-room or a disconnect of a connection *)
LeaveOrDisconnectStep ==
  event'.op \in {"leave-room", "disconnect"}

(* C17: a leave-room and a disconnect of the same connection, in whatever  *)
(* order they are handled and whether one or both arrive, clean up exactly *)
(* once: the first removes the connection from its session and the peer is *)
(* sent exactly one peer-left; an event that finds the connection in no    *)
(* session changes no state and sends nothing.                             *)
C17_LeaveIsCleanedUpOnce ==
  [][LET s == event'.sid
     IN LeaveOrDisconnectStep
        => /\ roomsOf(rooms', s) = {}
           /\ sioRooms'[s] = {}
           /\ currentRoomId'[s] = Null
           /\ \A r \in roomsOf(rooms, s) : \A m \in memberIds(rooms, r) \ {s} :
                \E i \in Sent(outbox', m, "peer-left") :
                  /\ Sent(outbox', m, "peer-left") = {i}
                  /\ outbox'[i].body.socketId = s
           /\ roomsOf(rooms, s) = {}
                => /\ rooms' = rooms
                   /\ sioRooms' = sioRooms
                   /\ outbox' = <<>>
                   /\ rmLog' = <<>>]_vars

(* S3 disconnected without a leave-room before: it is out of ABCD and S1,  *)
(* the member that stays, was sent one peer-left                           *)
C17_Witness ==
  /\ event.op = "disconnect"
  /\ event.sid = S3
  /\ conn[S3] = "closed"
  /\ memberIds(rooms, RoomABCD) = {S1}
  /\ outbox = <<Msg(S1, "peer-left", [userId |-> UserAnn, socketId |-> S3])>>

----------------------------------------------------------------------------
(* The step handles a malformed message: a join-room with an invalid room  *)
(* id or user id, an offer or answer with a missing type or sdp, an        *)
(* invalid room id or a target that is not a string, a host-changed with   *)
(* an invalid room id                                                      *)
MalformedStep ==
  \/ /\ event'.op = "join-room"
     /\ ~validateRoomId(event'.roomId) \/ ~validateUserId(event'.userId)
  \/ /\ event'.op = "host-changed"
     /\ ~validateRoomId(event'.roomId)
  \/ /\ event'.op \in {"offer", "answer"}
     /\ \/ ~IsDescription(event'.payload)
        \/ ~validateRoomId(event'.roomId)
        \/ ~Falsy(event'.targetSocketId) /\ ~IsString(event'.targetSocketId)
        \/ event'.op = "answer" /\ ~IsString(event'.targetSocketId)

(* C18: a malformed join-room, offer, answer or host-changed is answered   *)
(* with an error message to the sender and changes nothing: no session is  *)
(* created or deleted, no member added or removed, no hostId changed, and  *)
(* nothing is relayed.                                                     *)
C18_MalformedMessageIsRefused ==
  [][MalformedStep
       => /\ Len(outbox') = 1
          /\ outbox'[1].to = event'.sid
          /\ outbox'[1].type = "error"
          /\ rooms' = rooms
          /\ sioRooms' = sioRooms
          /\ currentRoomId' = currentRoomId]_vars

(* S3, a member of ABCD, asked to join the room "ab" and was refused       *)
(* without leaving ABCD                                                    *)
C18_Witness ==
  /\ event.op = "join-room"
  /\ event.sid = S3
  /\ event.roomId = RoomTooShort
  /\ outbox = ErrorMsg(S3, "Invalid roomId format")
  /\ S3 \in memberIds(rooms, RoomABCD)
  /\ currentRoomId[S3] = RoomABCD
  /\ DOMAIN rooms = {RoomABCD}

----------------------------------------------------------------------------
(* The ice-candidate of the step is one the handler drops: null or         *)
(* malformed, with an invalid or unknown room, from a non-member, or with  *)
(* a target that is not a string                                           *)
DroppedCandidateStep ==
  /\ event'.op = "ice-candidate"
  /\ \/ ~PayloadAcceptedStep
     \/ ~validateRoomId(event'.roomId)
     \/ event'.sid \notin memberIds(rooms, normalize(event'.roomId))
     \/ ~Falsy(event'.targetSocketId) /\ ~IsString(event'.targetSocketId)

(* C19: no error message is ever sent in response to an ice-candidate; a   *)
(* candidate that is null, malformed, names an invalid or unknown room or  *)
(* comes from a non-member is dropped: nothing is sent to anyone and no    *)
(* state changes.                                                          *)
C19_CandidatesAreDroppedSilently ==
  [][event'.op = "ice-candidate"
       => /\ \A i \in DOMAIN outbox' : outbox'[i].type = "ice-candidate"
          /\ DroppedCandidateStep => outbox' = <<>>
          /\ rooms' = rooms
          /\ sioRooms' = sioRooms
          /\ currentRoomId' = currentRoomId]_vars

(* S2 in ABCD with S1 sent S1 a candidate object without its candidate     *)
(* field: nothing went out                                                 *)
C19_Witness ==
  /\ event.op = "ice-candidate"
  /\ event.sid = S2
  /\ event.payload = CandEmpty
  /\ event.targetSocketId = S1
  /\ memberIds(rooms, RoomABCD) = {S1, S2}
  /\ outbox = <<>>

----------------------------------------------------------------------------
(* The age of a room at the instant of the state *)
age(r) == now - rooms[r].createdAt

(* C20: a run of the sweeper removes exactly the sessions that have no     *)
(* member and whose createdAt is more than one hour in the past; every     *)
(* other session, an empty one not older than the hour among them, stays   *)
(* in the registry unchanged.                                              *)
C20_SweeperRemovesOldEmptySessions ==
  [][event'.op = "cleanup"
       => /\ DOMAIN rooms' \subseteq DOMAIN rooms
          /\ \A r \in DOMAIN rooms \ DOMAIN rooms' :
               Len(rooms[r].users) = 0 /\ age(r) > OneHour
          /\ \A r \in DOMAIN rooms' :
               /\ Len(rooms[r].users) > 0 \/ age(r) <= OneHour
               /\ rooms'[r] = rooms[r]]_vars

(* At one hour and one second the sweeper removed the empty room "abCd",   *)
(* created at 0, and kept the empty room " ABCD ", created one hour before *)
C20_Witness ==
  /\ event.op = "cleanup"
  /\ Logged(rmLog, "Cleaned up stale room", <<RoomAbcdCase>>)
  /\ ~has(rooms, RoomAbcdCase)
  /\ has(rooms, RoomAbcdSpaced)
  /\ Len(rooms[RoomAbcdSpaced].users) = 0
  /\ now - rooms[RoomAbcdSpaced].createdAt = OneHour

----------------------------------------------------------------------------
(* C21: however sweeper runs interleave with join-room, leave-room and     *)
(* disconnect events, the sweeper never removes a session that has a       *)
(* member: a connection that was sent room-joined is a member of a         *)
(* registered session, and stays one, its record untouched, through every  *)
(* sweep and every event of other connections, until an event of its own   *)
(* (leave-room, disconnect, or a join-room, which leaves the current room) *)
(* takes it out.                                                           *)
C21_SweeperSparesSessionsWithMembers ==
  [][/\ event'.op = "cleanup"
          => \A r \in DOMAIN rooms :
               Len(rooms[r].users) > 0 => has(rooms', r) /\ rooms'[r] = rooms[r]
     /\ JoinSucceededStep
          => event'.sid \in memberIds(rooms', normalize(event'.roomId))
     /\ \A r \in DOMAIN rooms : \A s \in memberIds(rooms, r) :
          event'.sid # s
            => /\ s \in memberIds(rooms', r)
               /\ getUser(rooms', r, s) = getUser(rooms, r, s)
               /\ rooms'[r].createdAt = rooms[r].createdAt]_vars

(* A sweep at one hour and a second removed the empty room "abCd" and left *)
(* ABCD, as old but with a member                                          *)
C21_Witness ==
  /\ event.op = "cleanup"
  /\ Logged(rmLog, "Cleaned up stale room", <<RoomAbcdCase>>)
  /\ has(rooms, RoomABCD)
  /\ Len(rooms[RoomABCD].users) > 0
  /\ now - rooms[RoomABCD].createdAt > OneHour

----------------------------------------------------------------------------
(* C22: createRoom on an id that already has a session returns that        *)
(* session and leaves the registry, so the session's members, hostId and   *)
(* createdAt, as it was, whatever the clock shows; and no step changes the *)
(* createdAt of a session that stays in the registry.                      *)
C22_CreatedAtIsSetOnce ==
  [][/\ \A r \in DOMAIN rooms : \A t \in TimePoints :
          createRoom(rooms, r, t) = [rooms |-> rooms, log |-> <<>>, room |-> rooms[r]]
     /\ \A r \in DOMAIN rooms \cap DOMAIN rooms' :
          rooms'[r].createdAt = rooms[r].createdAt]_vars

(* ABCD, created at 0, took S2 as its second member after the hour and is  *)
(* still dated 0                                                           *)
C22_Witness ==
  /\ event.op = "join-room"
  /\ event.sid = S2
  /\ now > OneHour
  /\ has(rooms, RoomABCD)
  /\ rooms[RoomABCD].createdAt = 0
  /\ memberIds(rooms, RoomABCD) = {S1, S2}
  /\ rooms[RoomABCD].users[2].socketId = S2

----------------------------------------------------------------------------
(* The clients' negotiation *)

(* C25: a call of createOffer made while the client's isCreatingOfferRef   *)
(* is set, or while its connection is in have-local-offer or               *)
(* have-remote-offer, calls no operation of the connection and emits       *)
(* nothing, and leaves the connection, the target id and the pending       *)
(* candidates as they were.                                                *)
C25_CreateOfferIsSuppressed ==
  [][/\ did'.op = "createOffer"
     /\ \/ isCreatingOfferRef[did'.sid]
        \/ pc[did'.sid].signalingState \in {"have-local-offer", "have-remote-offer"}
     => /\ sent' = <<>>
        /\ operations' = operations
        /\ pc' = pc
        /\ isCreatingOfferRef' = isCreatingOfferRef
        /\ targetSocketIdRef' = targetSocketIdRef
        /\ pendingCandidatesRef' = pendingCandidatesRef
        /\ inbox' = inbox]_vars

(* The second of the two requests the first member gets for one join,      *)
(* made while the first is between createOffer and setLocalDescription     *)
C25_Witness ==
  /\ did.op = "createOffer"
  /\ isCreatingOfferRef[did.sid]
  /\ Len(operations[did.sid]) = 1
  /\ operations[did.sid][1].op = "setLocalDescription"
  /\ timeouts[did.sid] = <<>>

(* An await of addScreenShareTrack or removeScreenShareTrack settles *)
ScreenShareStep ==
  /\ did'.op = "await"
  /\ did'.arg.fn \in {"addScreenShareTrack", "removeScreenShareTrack"}

(* C26: addScreenShareTrack and removeScreenShareTrack emit their offer    *)
(* under the rule of createOffer: the offer is emitted when the client's   *)
(* connection is stable and isCreatingOfferRef is not set, and no offer is *)
(* emitted while the connection is not stable or isCreatingOfferRef is     *)
(* set.                                                                    *)
C26_ScreenShareOffersUnderTheRule ==
  [][ScreenShareStep
       => /\ (\E i \in DOMAIN sent' : sent'[i].type = "offer")
               => /\ pc[did'.sid].signalingState = "stable"
                  /\ ~isCreatingOfferRef[did'.sid]
          /\ (/\ did'.arg.op = "setLocalDescription"
              /\ pc[did'.sid].signalingState = "stable"
              /\ ~isCreatingOfferRef[did'.sid])
               => /\ sent' # <<>>
                  /\ sent'[1].type = "offer"
                  /\ sent'[1].from = did'.sid]_vars

(* C23: with two members in the room and no screen share, every offer     *)
(* that is emitted comes from the member that was there first; the member  *)
(* that joined second emits none.                                          *)
C23_OnlyTheFirstMemberOffers ==
  [][\A i \in DOMAIN sent' :
       sent'[i].type = "offer" => Len(session) = 2 /\ sent'[i].from = session[1]]_vars

(* The handshake with every handler, timeout and await that is ready       *)
(* eventually run: the browser's event loop runs each callback that is due *)
(* and the socket delivers each message that was sent.  Joining is up to   *)
(* the users.                                                              *)
HandshakeFairness ==
  /\ WF_vars(\E c \in Peers : onRoomJoined(c))
  /\ WF_vars(\E c \in Peers : onPeerJoined(c))
  /\ WF_vars(\E c \in Peers : onCreateOffer(c))
  /\ WF_vars(\E c \in Peers : createOffer(c))
  /\ WF_vars(\E c \in Peers : createOfferResumes(c))
  /\ WF_vars(\E c \in Peers : createAnswer(c))
  /\ WF_vars(\E c \in Peers : createAnswerResumes(c))
  /\ WF_vars(\E c \in Peers : handleAnswer(c))
  /\ WF_vars(\E c \in Peers : handleAnswerResumes(c))

HandshakeFairSpec == HandshakeSpec /\ HandshakeFairness

Negotiated(c) == pc[c].signalingState = "stable" /\ pc[c].remoteDescription # Null

(* C24: once both clients are members of the room, eventually both         *)
(* connections are stable with a remote description set.                   *)
C24_ExchangeCompletes ==
  Len(session) = 2 ~> \A c \in Peers : Negotiated(c)

(* createAnswer returns with the answer emitted to target: one message,    *)
(* the connection stable with the offer as its remote description          *)
Answered(c, target) ==
  /\ did.op = "await"
  /\ did.sid = c
  /\ did.arg.fn = "createAnswer"
  /\ sent = <<Emission(c, "answer", DescAnswer, target)>>
  /\ pc[c].signalingState = "stable"
  /\ pc[c].remoteDescription = DescOffer

(* C27: a client that receives an offer while its connection is stable     *)
(* eventually emits one answer addressed to the fromSocketId of that       *)
(* offer, with the offer applied and the connection stable again; and an   *)
(* answer is only ever emitted that way, addressed to the sender of the    *)
(* offer createAnswer was called with.                                     *)
C27_OfferInStableIsAnswered ==
  /\ \A c \in Peers : \A from \in Peers :
       (did = Did("createAnswer", c, from) /\ pc[c].signalingState = "stable")
         ~> Answered(c, from)
  /\ [][\A i \in DOMAIN sent' :
          sent'[i].type = "answer"
            => /\ did'.op = "await"
               /\ did'.arg.fn = "createAnswer"
               /\ sent' = <<Emission(did'.sid, "answer", DescAnswer,
                                     did'.arg.targetSocketId)>>
               /\ pc'[did'.sid].signalingState = "stable"]_vars

(* The member that joined second has answered the first member's offer *)
C27_Witness ==
  /\ Len(session) = 2
  /\ Answered(session[2], session[1])
  /\ targetSocketIdRef[session[2]] = session[1]

(* The exchange with the candidates: what is ready eventually runs, as in  *)
(* HandshakeFairness, and so do the handler of a candidate that arrived    *)
(* and the continuation of its await.  When the connection gathers a       *)
(* candidate is up to the browser.                                         *)
CandidateFairness ==
  /\ HandshakeFairness
  /\ WF_vars(\E c \in Peers : addIceCandidate(c))
  /\ WF_vars(\E c \in Peers : addIceCandidateResumes(c))

CandidateFairSpec == CandidateSpec /\ CandidateFairness

(* The candidates of queue are among applied, in the order of queue *)
RECURSIVE InOrder(_, _)
InOrder(queue, applied) ==
  IF queue = <<>> THEN TRUE
  ELSE IF applied = <<>> THEN FALSE
  ELSE IF queue[1] = applied[1] THEN InOrder(Tail(queue), Tail(applied))
  ELSE InOrder(queue, Tail(applied))

(* A step of handleAnswer: the operation it awaited has settled *)
HandleAnswerStep == did'.op = "await" /\ did'.arg.fn = "handleAnswer"

(* handleAnswer of c has just left its loop over the pending candidates *)
QueueDrained(c) ==
  /\ did.op = "await"
  /\ did.sid = c
  /\ did.arg.fn = "handleAnswer"
  /\ pendingCandidatesRef[c] = <<>>
  /\ pc[c].remoteDescription # Null
  /\ \A i \in DOMAIN operations[c] : operations[c][i].fn # "handleAnswer"

(* handleAnswer of c waits for its answer to be set *)
AnswerPending(c) ==
  \E i \in DOMAIN operations[c] :
    operations[c][i].fn = "handleAnswer" /\ operations[c][i].op = "setRemoteDescription"

(* C28: while an answer waits to be set the connection stays in            *)
(* have-local-offer; the step that sets it makes the connection stable     *)
(* with the answer as remote description and applies no candidate; after   *)
(* an answer is received in have-local-offer handleAnswer eventually       *)
(* leaves the queue of pending candidates empty; and when handleAnswer     *)
(* empties the queue, the candidates that were in it have been applied in  *)
(* their order in the queue.                                               *)
C28_AnswerThenDrain ==
  /\ [](\A c \in Peers :
         AnswerPending(c) => pc[c].signalingState = "have-local-offer")
  /\ \A c \in Peers :
       (did = Did("handleAnswer", c, DescAnswer)
          /\ pc[c].signalingState = "have-local-offer")
         ~> QueueDrained(c)
  /\ [][HandleAnswerStep
          => /\ (/\ did'.arg.op = "setRemoteDescription"
                 /\ pc[did'.sid].signalingState = "have-local-offer")
                  => pc'[did'.sid] =
                       [pc[did'.sid] EXCEPT !.signalingState = "stable",
                                            !.remoteDescription = did'.arg.arg]
             /\ (/\ pendingCandidatesRef[did'.sid] # <<>>
                 /\ pendingCandidatesRef'[did'.sid] = <<>>)
                  => /\ pc[did'.sid].remoteDescription # Null
                     /\ InOrder(pendingCandidatesRef[did'.sid],
                                pc'[did'.sid].candidates)]_vars

(* The first member has set the second member's answer, after which two    *)
(* candidates that waited in its queue were applied, and the queue is      *)
(* empty                                                                   *)
C28_Witness ==
  /\ Len(session) = 2
  /\ QueueDrained(session[1])
  /\ did.arg.op = "addIceCandidate"
  /\ pc[session[1]].remoteDescription = DescAnswer
  /\ pc[session[1]].candidates = <<candidateOf(session[2], 1), candidateOf(session[2], 2)>>

(* C29: a step that applies a candidate to a connection starts with the    *)
(* connection's remote description set; and addIceCandidate called while   *)
(* there is none appends the candidate to the tail of the pending queue,   *)
(* calls no operation of the connection, emits nothing and leaves the      *)
(* connection, the flag and the target as they were.                       *)
C29_NoCandidateBeforeRemoteDescription ==
  /\ [][\A c \in Peers :
          pc'[c].candidates # pc[c].candidates => pc[c].remoteDescription # Null]_vars
  /\ [][(did'.op = "addIceCandidate" /\ pc[did'.sid].remoteDescription = Null)
          => /\ pendingCandidatesRef' =
                  [pendingCandidatesRef EXCEPT ![did'.sid] = Append(@, did'.arg)]
             /\ inbox' = [inbox EXCEPT ![did'.sid] = Tail(@)]
             /\ sent' = <<>>
             /\ UNCHANGED <<pc, operations, isCreatingOfferRef, targetSocketIdRef,
                            timeouts, session>>]_vars

(* The second member's two candidates wait in the queue of the first,      *)
(* which has made its offer and not yet received the answer                *)
C29_Witness ==
  /\ Len(session) = 2
  /\ did.op = "addIceCandidate"
  /\ did.sid = session[1]
  /\ pc[session[1]].signalingState = "have-local-offer"
  /\ pc[session[1]].remoteDescription = Null
  /\ pc[session[1]].candidates = <<>>
  /\ pendingCandidatesRef[session[1]] =
       <<candidateOf(session[2], 1), candidateOf(session[2], 2)>>

(* The candidates c receives, in the order it receives them: those of the  *)
(* other client in the order its connection gathered them, since emitting  *)
(* and relaying keep the order                                             *)
Received(c) ==
  [k \in 1..MaxCandidates |-> candidateOf(CHOOSE p \in Peers : p # c, k)]

(* Where candidate is first found in applied, 0 if nowhere *)
FirstAt(applied, candidate) ==
  IF \E i \in DOMAIN applied : applied[i] = candidate
  THEN CHOOSE i \in DOMAIN applied :
         applied[i] = candidate /\ \A j \in 1..(i - 1) : applied[j] # candidate
  ELSE 0

(* No candidate was applied before one that was received earlier *)
AppliedInOrder(c) ==
  \A m, n \in DOMAIN Received(c) :
    (m < n /\ FirstAt(pc[c].candidates, Received(c)[n]) > 0)
      => /\ FirstAt(pc[c].candidates, Received(c)[m]) > 0
         /\ FirstAt(pc[c].candidates, Received(c)[m])
              < FirstAt(pc[c].candidates, Received(c)[n])

(* C30: a candidate waiting in the queue of a client whose remote          *)
(* description is set is eventually applied; a candidate leaves the queue  *)
(* only applied; and no candidate is applied to a connection before a      *)
(* candidate the client received earlier.                                  *)
C30_QueuedCandidatesAppliedInOrder ==
  /\ \A c \in Peers : \A k \in DOMAIN Received(c) :
       (/\ pc[c].remoteDescription # Null
        /\ \E i \in DOMAIN pendingCandidatesRef[c] :
             pendingCandidatesRef[c][i] = Received(c)[k])
         ~> FirstAt(pc[c].candidates, Received(c)[k]) > 0
  /\ [][\A c \in Peers : \A i \in DOMAIN pendingCandidatesRef[c] :
          (\A j \in DOMAIN pendingCandidatesRef'[c] :
             pendingCandidatesRef'[c][j] # pendingCandidatesRef[c][i])
            => FirstAt(pc'[c].candidates, pendingCandidatesRef[c][i]) > 0]_vars
  /\ [](\A c \in Peers : AppliedInOrder(c))

----------------------------------------------------------------------------
(* C36: an offer, answer or ice-candidate the server relays reaches only   *)
(* connections that are members of a session the sender is a member of,    *)
(* whatever targetSocketId the message carries.                            *)
C36_RelayStaysInTheSession ==
  [][\A i \in DOMAIN outbox' :
       (/\ event'.op \in {"offer", "answer", "ice-candidate"}
        /\ outbox'[i].type = event'.op)
         => \E roomId \in DOMAIN rooms :
              /\ usersHas(rooms[roomId], event'.sid)
              /\ usersHas(rooms[roomId], outbox'[i].to)]_vars

----------------------------------------------------------------------------
(* C37: no connection is a member of two sessions; and a join-room that    *)
(* succeeds leaves the connection a member of the joined session only,     *)
(* each member of another session it was in having been sent, before the   *)
(* joiner's room-joined, one peer-left naming the joiner and, when the     *)
(* joiner was that session's host, after the peer-left one host-changed    *)
(* naming that member.                                                     *)
C37_MemberOfOneSession ==
  /\ [](\A s \in Sockets : Cardinality(roomsOf(rooms, s)) <= 1)
  /\ [][LET s == event'.sid
            joined == normalize(event'.roomId)
        IN JoinSucceededStep
           => /\ roomsOf(rooms', s) = {joined}
              /\ \A r \in roomsOf(rooms, s) \ {joined} :
                   \A m \in memberIds(rooms, r) \ {s} :
                     \E i \in Sent(outbox', m, "peer-left") :
                       /\ Sent(outbox', m, "peer-left") = {i}
                       /\ outbox'[i].body.socketId = s
                       /\ \A k \in Sent(outbox', s, "room-joined") : i < k
                       /\ rooms[r].hostId = s
                            => \E j \in Sent(outbox', m, "host-changed") :
                                 /\ Sent(outbox', m, "host-changed") = {j}
                                 /\ i < j
                                 /\ outbox'[j].body.socketId = m
                                 /\ \A k \in Sent(outbox', s, "room-joined") : j < k]_vars

(* S1, host of ABCD, joined WXYZ: it is a member of WXYZ only, and S2, left *)
(* behind in ABCD, was sent peer-left and host-changed before S1 was sent  *)
(* room-joined                                                             *)
C37_Witness ==
  /\ event.op = "join-room"
  /\ event.sid = S1
  /\ event.roomId = RoomWXYZ
  /\ roomsOf(rooms, S1) = {RoomWXYZ}
  /\ memberIds(rooms, RoomABCD) = {S2}
  /\ rooms[RoomABCD].hostId = S2
  /\ Len(outbox) = 3
  /\ outbox[1].to = S2 /\ outbox[1].type = "peer-left" /\ outbox[1].body.socketId = S1
  /\ outbox[2].to = S2 /\ outbox[2].type = "host-changed" /\ outbox[2].body.socketId = S2
  /\ outbox[3].to = S1 /\ outbox[3].type = "room-joined"

----------------------------------------------------------------------------
(* C38: when a member that is not the host stops being a member of its     *)
(* session (leave-room, disconnect, or a join elsewhere), the session      *)
(* stays with the same hostId and with the records of the other members as *)
(* they were, removeUser reports wasHost false and no newHostId, and no     *)
(* host-changed is sent.                                                   *)
C38_NonHostLeavesHostAlone ==
  [][\A r \in DOMAIN rooms : \A s \in memberIds(rooms, r) :
       (rooms[r].hostId # s /\ s \notin memberIds(rooms', r))
         => /\ has(rooms', r)
            /\ rooms'[r].hostId = rooms[r].hostId
            /\ rooms'[r].users = usersDelete(rooms[r], s)
            /\ rooms'[r].users # <<>>
            /\ removeUser(rooms, r, s).success
            /\ ~removeUser(rooms, r, s).wasHost
            /\ removeUser(rooms, r, s).newHostId = Null
            /\ \A i \in DOMAIN outbox' : outbox'[i].type # "host-changed"]_vars

(* S2, the second member and not the host, disconnected: S1 is still the   *)
(* host of ABCD, its record as it was                                      *)
C38_Witness ==
  /\ event.op = "disconnect"
  /\ event.sid = S2
  /\ has(rooms, RoomABCD)
  /\ rooms[RoomABCD].hostId = S1
  /\ rooms[RoomABCD].users =
       <<[socketId |-> S1, userId |-> UserAnn, name |-> DefaultNamePrefix \o UserAnn]>>
  /\ outbox = <<Msg(S1, "peer-left", [userId |-> trim(UserBobby), socketId |-> S2])>>

----------------------------------------------------------------------------
(* C33: createAnswer called for an offer while the connection is in        *)
(* have-local-offer calls no operation of the connection and emits         *)
(* nothing; the connection with its state and descriptions, the target,    *)
(* the pending candidates and the flag stay as they were.                  *)
C33_OfferInHaveLocalOfferIsDropped ==
  [][(did'.op = "createAnswer" /\ pc[did'.sid].signalingState = "have-local-offer")
       => /\ sent' = <<>>
          /\ inbox' = [inbox EXCEPT ![did'.sid] = Tail(@)]
          /\ UNCHANGED <<pc, operations, targetSocketIdRef, pendingCandidatesRef,
                         isCreatingOfferRef, timeouts>>]_vars

(* Both members have made an offer; the first has just been handed the     *)
(* offer of the second and its connection still waits for an answer to its *)
(* own                                                                     *)
C33_Witness ==
  /\ Len(session) = 2
  /\ did = Did("createAnswer", session[1], session[2])
  /\ pc[session[1]].signalingState = "have-local-offer"
  /\ pc[session[1]].remoteDescription = Null
  /\ pc[session[2]].signalingState = "have-local-offer"
  /\ operations[session[1]] = <<>>
  /\ targetSocketIdRef[session[1]] = session[2]

----------------------------------------------------------------------------
(* C35: the connections of the two clients are never both in               *)
(* have-local-offer.                                                       *)
C35_NeverBothInHaveLocalOffer ==
  ~(\A c \in Peers : pc[c].signalingState = "have-local-offer")

----------------------------------------------------------------------------
(* C34: no candidate is applied to a connection twice.                     *)
C34_NoCandidateAppliedTwice ==
  \A c \in Peers : \A i, j \in DOMAIN pc[c].candidates :
    pc[c].candidates[i] = pc[c].candidates[j] => i = j


(* The members of the room have handled every message the server sent them *)
Processed == \A c \in members : inbox[c] = <<>>

(* C39: whenever the members of the room have handled every message the    *)
(* server sent them, a member's store holds its own user id as hostId      *)
(* exactly when the server's hostId of the room is the member's socket id; *)
(* in particular the host still holds its own id after its peer left.      *)
C39_HostViewAgreesWithTheRelay ==
  Processed => \A c \in members : (storeHostId[c] = UserIdOf(c)) <=> (roomHostId = c)


(* C31: a step in which emitOffer, emitAnswer or emitIceCandidate is       *)
(* called while the socket of its client is not connected reports the      *)
(* failure to the page: the message is not dropped without a toast.        *)
C31_DroppedEmissionIsReported ==
  [][dropped' # <<>> => toasts' # <<>>]_vars


(* The screen-share tasks among the operations of a client *)
Sharing(ops) ==
  {i \in DOMAIN ops : ops[i].fn \in {"addScreenShareTrack", "removeScreenShareTrack"}}

(* C32: a client whose store's hostId is not its own user id does not      *)
(* start or stop a screen share: its toggle returns with the toast 'Only   *)
(* host can share screen' and calls nothing, emits nothing and changes     *)
(* nothing.  An offer of a screen share and a host-changed request are     *)
(* emitted only by a client that started a share.                          *)
C32_OnlyTheHostShares ==
  [][/\ \A c \in Peers :
          storeHostId[c] # UserIdOf(c)
            => /\ screenShare'[c] = screenShare[c]
               /\ Cardinality(Sharing(operations'[c])) <= Cardinality(Sharing(operations[c]))
               /\ (did'.sid = c /\ did'.op = "handleToggleScreenShare")
                    => /\ sent' = <<>>
                       /\ toasts' = <<"Only host can share screen">>
                       /\ UNCHANGED <<pc, operations, inbox, storeHostId, roomHostId>>
     /\ \A i \in DOMAIN sent' :
          (sent'[i].type = "host-changed" \/ ScreenShareStep)
            => screenShare[sent'[i].from] > 0]_vars

(* The first member shares its screen and the second, whose store holds    *)
(* the first one's user id as hostId, has clicked the toggle               *)
C32_Witness ==
  /\ Len(session) = 2
  /\ did = Did("handleToggleScreenShare", session[2], Null)
  /\ storeHostId[session[2]] = UserIdOf(session[1])
  /\ toasts = <<"Only host can share screen">>
  /\ screenShare[session[1]] = 1
  /\ screenShare[session[2]] = 0
  /\ sent = <<>>

====
